---- MODULE Spec2Model ----
\* Token-passing core of the CUDA lattice decoder
\* (src/src/decoder/cuda-lattice-decoder.cu): InitDecoding, the per-frame
\* kernel _process_tokens (find-best-cutoff, emitting expansion, non-emitting
\* closure, per-frame collection) run by NumWorkers concurrent worker groups.
\* Costs are integers (fixed-point nats); a worker group is one sequential
\* thread that walks the out-arcs of the token it fetched.
EXTENDS Integers, Sequences, FiniteSets, TLC

\* ----------------------------------------------------------------- bounds
NumWorkers == 2
MaxFrames == 2
MaxTokens == 16
MaxToksPerFrame == 8
MaxArcsPerFrame == 14
MaxArcs == 40
NumStates == 6
HistSize == 4
PruneInterval == 3
PadArcs == 8
SmallTokens == 3
SmallArcsPerFrame == 4
MaxPushes == 3
\* the stream model: frames per utterance and utterances
StreamFrames == 3
StreamUtts == 2
PushCap == 4
MaxPruneRuns == 2

\* ------------------------------------------------------ program constants
MaxIter == 10
InitCutoff == 100
Infinity == 999
LAT_BUF_SIZE == 2
LOOKUP_DEACTIVE == -1
LOOKUP_READY_PUSH == -2
UIntMod == 1073741824
CostBias == 500
SlotRange == 64
MinPack == 0
FLT_MAX == 998
NumModified == 3

States == 0..(NumStates - 1)
Rank0(w) == w = 1
Tid(w) == w - 1
Min2(a, b) == IF a <= b THEN a ELSE b
Max2(a, b) == IF a >= b THEN a ELSE b

\* ------------------------------------------------------------ the inputs
\* The search graph: arc j is GraphArcs(g)[j]; ilabel 0 marks a non-emitting
\* arc.  Graph 1 has a zero-weight non-emitting arc out of the start state,
\* graph 2 the same arc with weight 1, graph 3 has no arc out of the start
\* state, graph 4 has no arc at all, graph 5 is graph 1 without a start
\* state, graph 6 is graph 1 with a non-emitting arc 2->4, so that a chain of
\* non-emitting arcs 2->4->3 follows the emitting arcs.
GraphArcs(g) ==
  IF g = 4 THEN << >> ELSE
  (IF g = 3 THEN << >> ELSE
  << [from |-> 0, to |-> 1,
      w |-> (IF g = 2 THEN 1 ELSE IF g = 7 THEN 2 ELSE 0), ilabel |-> 0],
     [from |-> 0, to |-> 2, w |-> 2, ilabel |-> 1],
     [from |-> 0, to |-> 3, w |-> 0, ilabel |-> 2],
     [from |-> 1, to |-> 2, w |-> 0, ilabel |-> 1],
     [from |-> 1, to |-> 4, w |-> 5, ilabel |-> 1],
     [from |-> 2, to |-> 4, w |-> 0, ilabel |-> 1],
     [from |-> 3, to |-> 4, w |-> 1, ilabel |-> 1],
     [from |-> 4, to |-> 3, w |-> 0, ilabel |-> 0] >>)
  \o (IF g = 6 THEN << [from |-> 2, to |-> 4, w |-> 0, ilabel |-> 0] >>
      ELSE << >>)
  \o [k \in 1..PadArcs |-> [from |-> 5, to |-> 5, w |-> 0, ilabel |-> 1]]
StartState == 0
\* fst::kNoStateId, what fst_.Start() returns for a graph without start state
kNoStateId == -1

\* configurations: graph, beam, max_active, lattice_beam, the capacities
\* max_tokens and max_lat_arc_per_frame, whether the build compiles the
\* plain asserts out (NDEBUG), and the number of frames of an utterance
Config(g, beam, max_active, lattice_beam) ==
  [g |-> g, beam |-> beam, max_active |-> max_active,
   lattice_beam |-> lattice_beam, max_tokens |-> MaxTokens,
   max_lat_arc_per_frame |-> MaxArcsPerFrame, ndebug |-> FALSE,
   frames |-> MaxFrames]
\* configurations with a small token arena or a small per-frame arc ceiling,
\* the latter on both builds, the graph without arcs out of the start state
\* on the build without asserts, the graph without any arc on both builds,
\* and the graph without start state
CapConfigs ==
  { [Config(1, 2, 1, 1) EXCEPT !.max_tokens = SmallTokens],
    [Config(1, 2, 1, 1) EXCEPT !.max_lat_arc_per_frame = SmallArcsPerFrame],
    [Config(1, 2, 1, 1) EXCEPT !.max_lat_arc_per_frame = SmallArcsPerFrame,
                               !.ndebug = TRUE],
    [Config(3, 2, 1, 1) EXCEPT !.ndebug = TRUE],
    Config(4, 2, 1, 1),
    [Config(4, 2, 1, 1) EXCEPT !.ndebug = TRUE],
    Config(5, 2, 1, 1) }
Configs ==
  { Config(1, 2, 1, 1), Config(2, 2, 1, 2), Config(1, 1, 3, 1),
    Config(3, 2, 1, 1) }

\* acoustic cost (-loglikelihood) of labels 1 and 2 for one frame
LLChoices == { <<0, 0>>, <<0, 2>> }

\* what uninitialised device memory may hold
UninitCutoffs == { 0, 50 }
UninitCosts == { 7 }
\* and what it may hold when the program is run again
UninitCostsAgain == { 1, 7 }

\* --------------------------------------------------------------- state
VARIABLES
  cfg,        \* the configuration the decoder was constructed with
  garbage,    \* content of never-written token memory
  hpc,        \* host driver: "idle", "kernel", "ready"
  frame,      \* num_frames_decoded_
  isInit,     \* is_init parameter of the running _process_tokens kernel
  ll,         \* acoustic costs of the current frame (loglikelihoods_d)
  bufs,       \* lat_toks_bufs_[0..1]: sequences of TokenState
  arcs,       \* lat_arcs_buf_: sequence of LatLinkCompact
  lookup,     \* current_tokens_lookup_d[state].tokenstate_idx
  toks,       \* toks_bpr_d: the token arena
  tpa,        \* token_per_arc_d
  tpaUpd,     \* token_per_arc_update_d
  cutoff,     \* *cutoff_d
  cutoffPrev, \* *cutoff_prev_d
  natl,       \* *num_arcs_till_last_d
  hist,       \* histogram_prev_toks_: [base, bins]
  lp,         \* LatticeProcessor: toks_num_used, arcs_bpr_used, sidx arrays
  disp,       \* dispatch counters fb_idx, pe_idx, ne_idx, agg_idx
  neQueue,    \* ne_queue_d
  modified,   \* modified_d[0..1]
  pc,         \* position of each worker in the kernel
  loc,        \* locals of each worker
  fault,      \* "none" or the device assertion that stopped the kernel
  skipA,      \* history: prev_toks indices skipped in Phase A of this frame
  skipB,      \* history: prev_toks indices skipped in Phase B of this frame
  apr,        \* arcs_apr_d[0 .. *arcs_apr_used_d - 1]: the arcs after pruning
  pmod,       \* LatticeProcessor::modified_d[0..2]
  pruneRuns,  \* how many times the host has run PruneActiveTokens
  firstOut,   \* history: arcs and arc_frame_size after the first pruning
  nw,         \* number of worker groups in the launch grid
  run,        \* the executions of the program: how many there are to be
              \* (uttMax), which one this is (utt), and as history the
              \* acoustic costs of the first, per frame (llSeq), and what it
              \* returned (firstView); calls (history) counts the
              \* process_frame calls of the utterance
  handed,     \* history: the prev_toks indices the dispatchers fb_idx and
              \* pe_idx have handed out in this frame, in order
  hs,         \* the host thread and its CUDA streams on their own: the host
              \* position hp, num_frames_decoded_ f, which device buffer is
              \* loglikelihoods_d (lld), the record calls (rec) and completed
              \* records (done) of event_ll and event_pt, per stream the
              \* queue q of issued operations and whether its head is being
              \* executed (busy), per log-likelihood device buffer the
              \* frame it holds and whether it is being written (dbuf), the
              \* number of times extra-costs of the token arena were
              \* rewritten (ver), what the copy of the arena has read (got)
              \* and the utterance counter utt
  pv          \* a CudaVector on its own: mem (mem_d), count (*count_d), and
              \* per caller of PushBack its position pc, the idx it got from
              \* atomicAdd and the number n of calls it has started; ret
              \* (history) holds the (index, value) pairs returned

vars == << cfg, garbage, hpc, frame, isInit, ll, bufs, arcs, lookup, toks, tpa,
           tpaUpd, cutoff, cutoffPrev, natl, hist, lp, disp, neQueue, modified,
           pc, loc, fault, skipA, skipB, apr, pmod, pruneRuns, firstOut, nw,
           run, handed, hs, pv >>

Workers == 1..nw
\* what no step of an execution changes
Static == << cfg, garbage, nw, hs, pv >>

\* ------------------------------------------------------------- helpers
Arcs == GraphArcs(cfg.g)
NumArcs == Len(Arcs)
ArcIdSeq == [j \in 1..NumArcs |-> j]
\* e_offsets[state] .. e_offsets[state + 1]: the emitting arcs of a state
EArcs(s) == SelectSeq(ArcIdSeq, LAMBDA j : Arcs[j].from = s /\ Arcs[j].ilabel # 0)
\* ne_offsets[state] .. ne_offsets[state + 1]: its non-emitting arcs
NEArcs(s) == SelectSeq(ArcIdSeq, LAMBDA j : Arcs[j].from = s /\ Arcs[j].ilabel = 0)
\* acoustic_cost = -loglikelihoods[ilabel]
AcCost(j) == ll[Arcs[j].ilabel]

\* pack_cost_idx_into_uint64(-cost, idx): the negated cost in the high bits,
\* the arc slot in the low bits; a larger pack is a lower cost
PackCostIdx(negcost, idx) == (CostBias + negcost) * SlotRange + idx
UnpackIdx(p) == p % SlotRange
UnpackCost(p) == CostBias - (p \div SlotRange)

\* Token(cost, prev): cost_ = cost + prev->cost_
NewToken(c) == [cost |-> c, extra_cost |-> 0]
GarbageToken == [cost |-> garbage, extra_cost |-> garbage]
\* TokenState(state)
NewTokenState(s) ==
  [state |-> s, tok_idx_allocated |-> -1, token_pack |-> MinPack, updated |-> 0]

\* a decoder with a single token buffer
CurIdxFixed(f) == 0
\* UpdateTokPointersByFrame: cur_toks_ = &lat_toks_bufs_[frame % LAT_BUF_SIZE],
\* prev_toks_ = &lat_toks_bufs_[(frame - 1) % LAT_BUF_SIZE], frame unsigned
CurIdx(f) == f % LAT_BUF_SIZE
PrevIdx(f) == ((f - 1) % UIntMod) % LAT_BUF_SIZE
Cur == bufs[CurIdx(frame)]
Prev == bufs[PrevIdx(frame)]

GetTokenByExactIdx(offset) ==
  IF offset >= cfg.max_tokens THEN cfg.max_tokens - 1 ELSE offset
\* the allocation index without the tokens used by the frames before
GetTokenAllocIdxNoBase(offset) == offset
GetTokenAllocIdx(offset) ==
  LET idx == lp.toks_num_used + offset
  IN  IF idx >= cfg.max_tokens THEN cfg.max_tokens - 1 ELSE idx
TokOf(ts) == toks[GetTokenByExactIdx(ts.tok_idx_allocated)]
\* GetActiveToken(frame, id): the arena index toks_bpr_fr_sidx_d[frame] + id
GetActiveToken(f, id) == lp.toks_sidx[f] + id

\* CudaVector::PushBack on the device: idx = atomicAdd(count, 1), the count
\* saturates at max_size - 1, the value is stored at idx
PushBack(seq, val, max) ==
  IF Len(seq) + 1 >= max THEN SubSeq(Append(seq, val), 1, max - 1)
  ELSE Append(seq, val)

\* the histogram of prev_toks costs: bins of width 1 above the baseline
HistBin(base, cost) ==
  LET d == cost - base
  IN  IF d < 0 THEN 0 ELSE IF d >= HistSize THEN HistSize - 1 ELSE d
RECURSIVE HistAcc(_, _)
HistAcc(bins, k) == IF k < 0 THEN 0 ELSE bins[k] + HistAcc(bins, k - 1)
\* upper edge of the first bin where the accumulated count meets max_active
HistGetCutoff(h, maxActive) ==
  LET hit == { k \in 0..(HistSize - 1) : HistAcc(h.bins, k) >= maxActive }
      k0 == IF hit = {} THEN HistSize - 1
            ELSE CHOOSE k \in hit : \A k2 \in hit : k <= k2
  IN  h.base + (k0 + 1)
HistInitialize(base) == [base |-> base, bins |-> [k \in 0..(HistSize - 1) |-> 0]]

\* a strided loop that stops after each thread's first index
StrideOnce(w, size) == { t \in 0..(size - 1) : t = Tid(w) }
\* the indices tid, tid + batch, ... below size that a thread's strided loop visits
Stride(w, size) == { t \in 0..(size - 1) : t % nw = Tid(w) }

Loc0 ==
  [i |-> -1, todo |-> << >>, lc |-> Infinity, size |-> 0, cnt |-> 0, m0 |-> 0,
   cut |-> 0, ns |-> -1, j |-> 0, tsidx |-> -1, u |-> -1, tot |-> 0, ac |-> 0,
   emit |-> FALSE, tid |-> 0, after |-> "off", asz |-> 0, pf |-> 0,
   prev_cidx |-> 0]

\* ----------------------------------------------------------------- Init
\* LatticeProcessor::Initialize: counts and start indices zeroed
\* the streams and events the constructor creates (cu:1294-1300): nothing
\* issued, no event recorded, nothing in the log-likelihood buffers
Streams == { "comp", "ll", "lat0", "lat1" }
InitialStreams ==
  [hp |-> "idle", f |-> 0, lld |-> 0, utt |-> 1,
   rec |-> [ll |-> 0, pt |-> 0], done |-> [ll |-> 0, pt |-> 0],
   q |-> [s \in Streams |-> << >>], busy |-> [s \in Streams |-> FALSE],
   dbuf |-> [b \in 0..1 |-> [frame |-> -1, writing |-> FALSE]],
   ver |-> 0, got |-> << -1, -1 >>]

InitialLp ==
  [toks_num_used |-> 0, arcs_bpr_used |-> 0,
   arcs_apr_fr_size |-> [f \in 0..(PruneInterval + 1) |-> 0],
   toks_sidx |-> [f \in 0..(PruneInterval + 1) |-> 0],
   arcs_sidx |-> [f \in 0..(PruneInterval + 1) |-> 0]]

\* the decoder after its constructor: counts zero, update flags cleared,
\* token memory and cutoff_prev never written
InitState(configs, workers, runs) ==
  /\ cfg \in configs
  /\ nw = workers
  /\ run = [uttMax |-> runs, utt |-> 1, llSeq |-> << >>, firstView |-> << >>,
            calls |-> 0]
  /\ garbage \in UninitCosts
  /\ cutoffPrev \in UninitCutoffs
  /\ hpc = "idle"
  /\ frame = 0
  /\ isInit = FALSE
  /\ ll = << 0, 0 >>
  /\ bufs = [b \in 0..(LAT_BUF_SIZE - 1) |-> << >>]
  /\ arcs = << >>
  /\ lookup = [s \in States |-> LOOKUP_DEACTIVE]
  /\ toks = [k \in 0..(MaxTokens - 1) |-> GarbageToken]
  /\ tpa = [k \in 0..(MaxArcsPerFrame - 1) |-> GarbageToken]
  /\ tpaUpd = [k \in 0..(MaxArcsPerFrame - 1) |-> 0]
  /\ cutoff = Infinity
  /\ natl = 0
  /\ hist = HistInitialize(0)
  /\ lp = InitialLp
  /\ disp = [fb |-> 0, pe |-> 0, ne |-> 0, agg |-> 0]
  /\ neQueue = [k \in 0..(MaxToksPerFrame - 1) |-> 0]
  /\ modified = [k \in 0..1 |-> FALSE]
  /\ pc = [w \in Workers |-> "off"]
  /\ loc = [w \in Workers |-> Loc0]
  /\ fault = "none"
  /\ skipA = {}
  /\ skipB = {}
  /\ apr = << >>
  /\ pmod = [k \in 0..(NumModified - 1) |-> 0]
  /\ pruneRuns = 0
  /\ firstOut = << >>
  /\ handed = [fb |-> << >>, pe |-> << >>]
  /\ hs = InitialStreams
  /\ pv = [mem |-> [k \in 0..(PushCap - 1) |-> << >>], count |-> 0,
           pc |-> [w \in Workers |-> "idle"], idx |-> [w \in Workers |-> 0],
           n |-> [w \in Workers |-> 0], ret |-> {}]

Init == InitState(Configs, NumWorkers, 1)

\* ---------------------------------------------------------- host driver
\* fst_.Start()
FstStart == IF cfg.g = 5 THEN kNoStateId ELSE StartState
\* a Clear that leaves the vector as it was
ClearToksKeep(v) == v
\* ClearToks, CudaVector::Clear: the count is zeroed
ClearToks(v) == << >>

\* InitDecoding: clear the vectors, LatticeProcessor::Initialize,
\* _initialize_all_states, KALDI_ASSERT on the start state,
\* _add_initial_token (a single thread: lookup, push, pack, temp token in
\* slot 0, StoreDataByPackIdx with its assert(idx < numArcs)), then launch
\* _process_tokens(is_init = true)
BeginUtterance ==
  /\ fault = "none"
  /\ frame' = 0
  /\ arcs' = << >>
  /\ apr' = << >>
  /\ lp' = InitialLp
  /\ skipA' = {}
  /\ skipB' = {}
  /\ handed' = [fb |-> << >>, pe |-> << >>]
  /\ IF FstStart = kNoStateId
     THEN /\ fault' = "assert_start_state"
          /\ lookup' = [s \in States |-> LOOKUP_DEACTIVE]
          /\ bufs' = [b \in 0..(LAT_BUF_SIZE - 1) |-> ClearToks(bufs[b])]
          /\ UNCHANGED << cutoff, tpa, tpaUpd, toks, isInit, hpc, pc, loc >>
     ELSE LET idx == Len(ClearToks(bufs[CurIdx(0)]))
              stored == NumArcs > 0 \/ cfg.ndebug
              ts == [NewTokenState(FstStart) EXCEPT
                       !.tok_idx_allocated = idx,
                       !.token_pack = Max2(MinPack, PackCostIdx(0, 0)),
                       !.updated = IF stored THEN 1 ELSE 0]
          IN  /\ lookup' = [s \in States |->
                              IF s = FstStart THEN idx ELSE LOOKUP_DEACTIVE]
              /\ cutoff' = InitCutoff
              /\ bufs' = [b \in 0..(LAT_BUF_SIZE - 1) |->
                            IF b = CurIdx(0) THEN Append(ClearToks(bufs[b]), ts)
                            ELSE ClearToks(bufs[b])]
              /\ tpa' = [tpa EXCEPT ![0] = NewToken(0)]
              /\ IF stored
                 THEN /\ tpaUpd' = [tpaUpd EXCEPT ![0] = 0]
                      /\ toks' = [toks EXCEPT
                                    ![GetTokenByExactIdx(idx)] = NewToken(0)]
                      /\ isInit' = TRUE
                      /\ hpc' = "kernel"
                      /\ pc' = [w \in Workers |-> "start"]
                      /\ loc' = [w \in Workers |-> Loc0]
                      /\ fault' = fault
                 ELSE /\ tpaUpd' = [tpaUpd EXCEPT ![0] = 1]
                      /\ fault' = "assert_buf_size"
                      /\ UNCHANGED << toks, isInit, hpc, pc, loc >>
  /\ UNCHANGED << Static, pmod, pruneRuns, firstOut, ll, cutoffPrev,
                  natl, hist, disp, neQueue, modified >>

\* the first utterance of a decoder
InitDecoding ==
  /\ hpc = "idle"
  /\ BeginUtterance
  /\ run' = [run EXCEPT !.calls = 0]

\* GetHostData: the tokens and their start indices, the arcs after pruning
\* and their per-frame sizes
View ==
  << [k \in 0..(lp.toks_num_used - 1) |-> toks[k]], lp.toks_sidx, apr,
     lp.arcs_apr_fr_size >>

\* InitDecoding called again, for the next utterance on the same decoder,
\* after the last frame or after the lattice of the utterance before was
\* taken (which is remembered when the utterance is to be decoded again
\* after another one)
InitDecodingAgain ==
  /\ hpc \in { "ready", "final" }
  /\ run.utt < run.uttMax
  /\ BeginUtterance
  /\ run' = [run EXCEPT !.utt = run.utt + 1, !.calls = 0,
                        !.firstView = IF hpc = "final" /\ run.utt = 1
                                         /\ run.uttMax > 2
                                      THEN View ELSE run.firstView]

\* ComputeLogLikelihoods, PreProcessTokens and ProcessTokens for one frame:
\* new acoustic costs, frame counter + 1, cur_toks cleared, kernel launched.
\* A repeated execution is given the acoustic costs of the first.
ProcessFrame ==
  /\ hpc = "ready"
  /\ fault = "none"
  /\ frame < cfg.frames
  /\ IF run.utt = 1
     THEN /\ \E a \in LLChoices : ll' = a
          /\ run' = IF run.uttMax > 1
                    THEN [run EXCEPT !.llSeq = Append(run.llSeq, ll'),
                                     !.calls = run.calls + 1]
                    ELSE [run EXCEPT !.calls = run.calls + 1]
     ELSE IF run.utt < run.uttMax
     THEN /\ \E a \in LLChoices : ll' = a
          /\ run' = [run EXCEPT !.calls = run.calls + 1]
     ELSE /\ frame < Len(run.llSeq)
          /\ ll' = run.llSeq[frame + 1]
          /\ run' = [run EXCEPT !.calls = run.calls + 1]
  /\ frame' = frame + 1
  /\ bufs' = [bufs EXCEPT ![CurIdx(frame + 1)] =
                ClearToks(bufs[CurIdx(frame + 1)])]
  /\ handed' = [fb |-> << >>, pe |-> << >>]
  /\ isInit' = FALSE
  /\ hpc' = "kernel"
  /\ pc' = [w \in Workers |-> "start"]
  /\ loc' = [w \in Workers |-> Loc0]
  /\ skipA' = {}
  /\ skipB' = {}
  /\ UNCHANGED << Static, pmod, pruneRuns, firstOut, apr, arcs,
                  lookup, toks, tpa, tpaUpd, cutoff, cutoffPrev, natl, hist, lp,
                  disp, neQueue, modified, fault >>

\* the kernel has returned on every worker
KernelDone ==
  /\ hpc = "kernel"
  /\ fault = "none"
  /\ \A w \in Workers : pc[w] = "done"
  /\ hpc' = "ready"
  /\ pc' = [w \in Workers |-> "off"]
  /\ loc' = [w \in Workers |-> Loc0]
  /\ UNCHANGED << Static, run, handed, pmod, pruneRuns, firstOut, apr, frame,
                  isInit, ll, bufs, arcs, lookup, toks,
                  tpa, tpaUpd, cutoff, cutoffPrev, natl, hist, lp, disp,
                  neQueue, modified, fault, skipA, skipB >>

\* ------------------------------------------------------ kernel: helpers
Active(w, p) == fault = "none" /\ hpc = "kernel" /\ pc[w] = p
HostVars == << Static, run, hpc, frame, isInit, ll, apr, pmod, pruneRuns,
              firstOut >>
Others == << HostVars, handed >>
\* a dispatcher left where the frame's fetches have moved it
DispatchResetKeep(idx) == idx
\* *params.fb_idx = 0, *params.pe_idx = 0: the counter after the reset
DispatchReset(idx) == 0
\* i = atomicAdd(params->fb_idx, 1), and likewise pe_idx and ne_idx: the
\* counter after the fetch
DispatchNext(idx) == idx + 1

\* a test-then-set that is not atomic: a slot being pushed also passes
CasWinsNonAtomic(v) == v = LOOKUP_DEACTIVE \/ v = LOOKUP_READY_PUSH
\* atomicCAS(&tokenstate_idx, LOOKUP_DEACTIVE, LOOKUP_READY_PUSH) succeeds
CasWins(v) == v = LOOKUP_DEACTIVE
\* a spin loop that is left as soon as the slot is claimed
LookupReadyEarly(v) == v # LOOKUP_DEACTIVE
\* a spin loop that takes index 0 for a slot still without an index
LookupReadyPositive(v) == v > 0
\* while (idx == LOOKUP_DEACTIVE || idx == LOOKUP_READY_PUSH): the exit test
LookupReady(v) == v # LOOKUP_DEACTIVE /\ v # LOOKUP_READY_PUSH
\* histogram pruning of a source token of the last frame
SkipTest(size, cost) == size > cfg.max_active /\ cost > cutoffPrev
\* the histogram is built only when this holds
UseHistogram(size) == size > cfg.max_active /\ frame > 1
\* Phase A: the least total_cost + beam over the emitting arcs of a token
RECURSIVE ArcMin(_, _, _)
ArcMin(js, cost, acc) ==
  IF js = << >> THEN acc
  ELSE ArcMin(Tail(js), cost,
              Min2(acc, cost + Arcs[Head(js)].w + AcCost(Head(js)) + cfg.beam))
\* a strict comparison against the cutoff
WithinCutoffStrict(total, cut) == total < cut
\* Phase B: total_cost <= cutoff
WithinCutoff(total, cut) == total <= cut
\* an arc whose previous endpoint is always taken in the current frame
PrevTokFrameSame(is_emit, f) == f
\* prev_tok_frame = (!is_emit) ? params->frame : params->frame - 1
PrevTokFrame(is_emit, f) == IF is_emit THEN f - 1 ELSE f
\* update_idx: the arc's index in the arc vector minus the frame's base
UpdateIdx(pushIdx) == pushIdx - natl
\* a plain store of the pack in place of the atomic maximum
PlainStorePack(old, new) == new
\* atomicMax on the pack
AtomicMaxPack(old, new) == Max2(old, new)
\* ret < new_token_pack: this arc now holds the pack
PackWon(old, new) == old < new
\* a closure without the cap on its iterations
ClosureContinuesUncapped(flag, cnt) == flag
\* the loop-continuation test of the non-emitting closure
ClosureContinues(flag, cnt) == flag /\ cnt < MaxIter
\* aggregate = (!is_init) && cnt > 1
Aggregate(cnt) == (~isInit) /\ cnt > 1
ResetArcLocals(l) ==
  [l EXCEPT !.ns = -1, !.j = 0, !.tsidx = -1, !.u = -1, !.tot = 0, !.ac = 0]

\* ------------------------------------------------- kernel: _process_tokens
Start(w) ==
  /\ Active(w, "start")
  /\ IF isInit
     THEN /\ natl' = IF Rank0(w) THEN 0 ELSE natl
          /\ pc' = [pc EXCEPT ![w] = "flags"]
          /\ loc' = loc
     ELSE /\ natl' = natl
          /\ loc' = [loc EXCEPT ![w].lc = Infinity, ![w].size = Len(Prev)]
          /\ pc' = [pc EXCEPT ![w] =
                      IF UseHistogram(Len(Prev)) THEN "hist_add" ELSE "fbc_fetch"]
  /\ UNCHANGED << Others, bufs, arcs, lookup, toks, tpa, tpaUpd, cutoff,
                  cutoffPrev, hist, lp, disp, neQueue, modified, fault,
                  skipA, skipB >>

\* _find_prev_cutoff_by_histogram: the thread's share of prev_toks is added
HistAdd(w) ==
  /\ Active(w, "hist_add")
  /\ LET mine == Stride(w, loc[w].size)
         n(k) == Cardinality({ t \in mine :
                               HistBin(hist.base, TokOf(Prev[t + 1]).cost) = k })
     IN  hist' = [hist EXCEPT !.bins = [k \in 0..(HistSize - 1) |->
                                          hist.bins[k] + n(k)]]
  /\ pc' = [pc EXCEPT ![w] = "hist_sync1"]
  /\ UNCHANGED << Others, bufs, arcs, lookup, toks, tpa, tpaUpd, cutoff,
                  cutoffPrev, natl, lp, disp, neQueue, modified, loc, fault,
                  skipA, skipB >>

HistCut(w) ==
  /\ Active(w, "hist_cut")
  /\ cutoffPrev' = IF Rank0(w) THEN HistGetCutoff(hist, cfg.max_active)
                   ELSE cutoffPrev
  /\ pc' = [pc EXCEPT ![w] = "hist_sync2"]
  /\ UNCHANGED << Others, bufs, arcs, lookup, toks, tpa, tpaUpd, cutoff, natl,
                  hist, lp, disp, neQueue, modified, loc, fault, skipA, skipB >>

\* _find_best_cutoff: fetch a token from the dispatcher, reduce its arcs
FbcFetch(w) ==
  /\ Active(w, "fbc_fetch")
  /\ disp' = [disp EXCEPT !.fb = DispatchNext(disp.fb)]
  /\ handed' = IF disp.fb < loc[w].size
               THEN [handed EXCEPT !.fb = Append(handed.fb, disp.fb)]
               ELSE handed
  /\ LET i == disp.fb
         size == loc[w].size
     IN  IF i >= size
         THEN /\ pc' = [pc EXCEPT ![w] = "fbc_min"]
              /\ UNCHANGED << loc, skipA >>
         ELSE LET ts == Prev[i + 1]
                  tok == TokOf(ts)
              IN  /\ pc' = pc
                  /\ IF SkipTest(size, tok.cost)
                     THEN /\ skipA' = skipA \cup { i }
                          /\ loc' = loc
                     ELSE /\ skipA' = skipA
                          /\ loc' = [loc EXCEPT ![w].lc =
                                       ArcMin(EArcs(ts.state), tok.cost, loc[w].lc)]
  /\ UNCHANGED << HostVars, bufs, arcs, lookup, toks, tpa, tpaUpd, cutoff,
                  cutoffPrev, natl, hist, lp, neQueue, modified, fault, skipB >>

FbcMin(w) ==
  /\ Active(w, "fbc_min")
  /\ cutoff' = IF loc[w].lc # Infinity THEN Min2(cutoff, loc[w].lc) ELSE cutoff
  /\ pc' = [pc EXCEPT ![w] = "sync_A"]
  /\ UNCHANGED << Others, bufs, arcs, lookup, toks, tpa, tpaUpd, cutoffPrev,
                  natl, hist, lp, disp, neQueue, modified, loc, fault,
                  skipA, skipB >>

\* after Phase A: histogram baseline for the next frame, the modified flags,
\* the thread's copy of the cutoff
Flags(w) ==
  /\ Active(w, "flags")
  /\ hist' = IF Rank0(w) /\ ~isInit THEN HistInitialize(cutoff - cfg.beam) ELSE hist
  /\ modified' = IF Rank0(w) THEN [k \in 0..1 |-> FALSE]
                 ELSE [modified EXCEPT ![1] = FALSE]
  /\ loc' = [loc EXCEPT ![w].cut = cutoff, ![w].m0 = 0, ![w].cnt = 0,
                        ![w].lc = Infinity, ![w].size = Len(Prev)]
  /\ pc' = [pc EXCEPT ![w] = IF isInit THEN "ne_top" ELSE "pe_fetch"]
  /\ UNCHANGED << Others, bufs, arcs, lookup, toks, tpa, tpaUpd, cutoff,
                  cutoffPrev, natl, lp, disp, neQueue, fault, skipA, skipB >>

\* _process_emitting_tokens: fetch a token from the dispatcher
PeFetch(w) ==
  /\ Active(w, "pe_fetch")
  /\ disp' = [disp EXCEPT !.pe = DispatchNext(disp.pe)]
  /\ handed' = IF disp.pe < loc[w].size
               THEN [handed EXCEPT !.pe = Append(handed.pe, disp.pe)]
               ELSE handed
  /\ LET i == disp.pe
         size == loc[w].size
     IN  IF i >= size
         THEN /\ pc' = [pc EXCEPT ![w] = "sync_B1"]
              /\ loc' = [loc EXCEPT ![w].i = -1]
              /\ skipB' = skipB
         ELSE LET ts == Prev[i + 1]
              IN  IF SkipTest(size, TokOf(ts).cost)
                  THEN /\ skipB' = skipB \cup { i }
                       /\ UNCHANGED << pc, loc >>
                  ELSE /\ skipB' = skipB
                       /\ loc' = [loc EXCEPT ![w].i = i, ![w].todo = EArcs(ts.state)]
                       /\ pc' = [pc EXCEPT ![w] = "pe_arc"]
  /\ UNCHANGED << HostVars, bufs, arcs, lookup, toks, tpa, tpaUpd, cutoff,
                  cutoffPrev, natl, hist, lp, neQueue, modified, fault, skipA >>

\* the next emitting arc of the fetched token
PeArc(w) ==
  /\ Active(w, "pe_arc")
  /\ IF loc[w].todo = << >>
     THEN /\ pc' = [pc EXCEPT ![w] = "pe_fetch"]
          /\ loc' = loc
     ELSE LET j == Head(loc[w].todo)
              tok == TokOf(Prev[loc[w].i + 1])
              total == tok.cost + Arcs[j].w + AcCost(j)
          IN  IF WithinCutoff(total, loc[w].cut)
              THEN /\ loc' = [loc EXCEPT ![w].todo = Tail(loc[w].todo),
                                ![w].ns = Arcs[j].to, ![w].j = j,
                                ![w].tot = total, ![w].ac = AcCost(j),
                                ![w].emit = TRUE]
                   /\ pc' = [pc EXCEPT ![w] = "foa_cas"]
              ELSE /\ loc' = [loc EXCEPT ![w].todo = Tail(loc[w].todo)]
                   /\ pc' = pc
  /\ UNCHANGED << Others, bufs, arcs, lookup, toks, tpa, tpaUpd, cutoff,
                  cutoffPrev, natl, hist, lp, disp, neQueue, modified, fault,
                  skipA, skipB >>

\* ---------------------------------------- kernel: _find_or_add_token_arc
\* the activation test and the compare-and-swap on the lookup slot
FoaCas(w) ==
  /\ Active(w, "foa_cas")
  /\ IF CasWins(lookup[loc[w].ns])
     THEN /\ lookup' = [lookup EXCEPT ![loc[w].ns] = LOOKUP_READY_PUSH]
          /\ pc' = [pc EXCEPT ![w] = "foa_push"]
     ELSE /\ lookup' = lookup
          /\ pc' = [pc EXCEPT ![w] = "foa_arc"]
  /\ UNCHANGED << Others, bufs, arcs, toks, tpa, tpaUpd, cutoff, cutoffPrev,
                  natl, hist, lp, disp, neQueue, modified, loc, fault,
                  skipA, skipB >>

\* cur_toks.PushBack(TokenState(nextstate))
FoaPush(w) ==
  /\ Active(w, "foa_push")
  /\ bufs' = [bufs EXCEPT ![CurIdx(frame)] =
                PushBack(Cur, NewTokenState(loc[w].ns), MaxToksPerFrame)]
  /\ loc' = [loc EXCEPT ![w].tsidx = Len(Cur)]
  /\ pc' = [pc EXCEPT ![w] = "foa_publish"]
  /\ UNCHANGED << Others, arcs, lookup, toks, tpa, tpaUpd, cutoff, cutoffPrev,
                  natl, hist, lp, disp, neQueue, modified, fault, skipA, skipB >>

\* lookup_elem.tokenstate_idx = tokenstate_idx
FoaPublish(w) ==
  /\ Active(w, "foa_publish")
  /\ lookup' = [lookup EXCEPT ![loc[w].ns] = loc[w].tsidx]
  /\ pc' = [pc EXCEPT ![w] = "foa_alloc"]
  /\ UNCHANGED << Others, bufs, arcs, toks, tpa, tpaUpd, cutoff, cutoffPrev,
                  natl, hist, lp, disp, neQueue, modified, loc, fault,
                  skipA, skipB >>

\* cur_toks[tokenstate_idx].tok_idx_allocated = GetTokenAllocIdx(tokenstate_idx)
FoaAlloc(w) ==
  /\ Active(w, "foa_alloc")
  /\ IF loc[w].tsidx >= Len(Cur)
     THEN /\ fault' = "assert_index"
          /\ UNCHANGED << bufs, pc >>
     ELSE /\ bufs' = [bufs EXCEPT ![CurIdx(frame)][loc[w].tsidx + 1].tok_idx_allocated =
                        GetTokenAllocIdx(loc[w].tsidx)]
          /\ pc' = [pc EXCEPT ![w] = "foa_arc"]
          /\ fault' = fault
  /\ UNCHANGED << Others, arcs, lookup, toks, tpa, tpaUpd, cutoff, cutoffPrev,
                  natl, hist, lp, disp, neQueue, modified, loc, skipA, skipB >>

\* assert(ret < params->max_lat_arc_per_frame): with the assert compiled out
\* any slot is taken, and the memory behind token_per_arc_d is written as far
\* as the model keeps it
ArcSlotAccepted(u) ==
  u < cfg.max_lat_arc_per_frame \/ (cfg.ndebug /\ u < MaxArcsPerFrame)
\* the spin loop is left once the slot holds an index; the arc is pushed and
\* its frame-local slot becomes update_idx
FoaArc(w) ==
  /\ Active(w, "foa_arc")
  /\ LookupReady(lookup[loc[w].ns])
  /\ LET l == loc[w]
         arc == [prev_tok_id |-> l.i,
                 prev_fr |-> PrevTokFrame(l.emit, frame),
                 next_tok_id |-> lookup[l.ns], next_fr |-> frame,
                 acoustic |-> l.ac, arc_id |-> l.j]
         u == UpdateIdx(Len(arcs))
     IN  /\ arcs' = PushBack(arcs, arc, MaxArcs)
         /\ IF ArcSlotAccepted(u)
            THEN /\ loc' = [loc EXCEPT ![w].tsidx = lookup[l.ns], ![w].u = u]
                 /\ pc' = [pc EXCEPT ![w] = "amax"]
                 /\ fault' = fault
            ELSE /\ fault' = IF cfg.ndebug THEN "slot_out_of_bounds"
                             ELSE "assert_arc_slot"
                 /\ UNCHANGED << loc, pc >>
  /\ UNCHANGED << Others, bufs, lookup, toks, tpa, tpaUpd, cutoff, cutoffPrev,
                  natl, hist, lp, disp, neQueue, modified, skipA, skipB >>

\* first pass of the recombination: atomicMax of the new pack
AMax(w) ==
  /\ Active(w, "amax")
  /\ LET l == loc[w]
         old == Cur[l.tsidx + 1].token_pack
         new == PackCostIdx(-l.tot, l.u)
     IN  /\ bufs' = [bufs EXCEPT ![CurIdx(frame)][l.tsidx + 1].token_pack =
                       AtomicMaxPack(old, new)]
         /\ IF PackWon(old, new)
            THEN /\ pc' = [pc EXCEPT ![w] = "tmp_write"]
                 /\ loc' = loc
            ELSE /\ pc' = [pc EXCEPT ![w] = IF l.emit THEN "pe_arc" ELSE "ne_arc"]
                 /\ loc' = [loc EXCEPT ![w] = ResetArcLocals(l)]
  /\ UNCHANGED << Others, arcs, lookup, toks, tpa, tpaUpd, cutoff, cutoffPrev,
                  natl, hist, lp, disp, neQueue, modified, fault, skipA, skipB >>

\* the winner stores its token in the arc's slot and flags the slot
TmpWrite(w) ==
  /\ Active(w, "tmp_write")
  /\ LET l == loc[w]
     IN  /\ tpa' = [tpa EXCEPT ![l.u] = NewToken(l.tot)]
         /\ tpaUpd' = [tpaUpd EXCEPT ![l.u] = 1]
         /\ modified' = IF l.emit THEN modified
                        ELSE [modified EXCEPT ![l.m0] = TRUE]
         /\ pc' = [pc EXCEPT ![w] = IF l.emit THEN "pe_arc" ELSE "ne_arc"]
         /\ loc' = [loc EXCEPT ![w] = ResetArcLocals(l)]
  /\ UNCHANGED << Others, bufs, arcs, lookup, toks, cutoff, cutoffPrev, natl,
                  hist, lp, disp, neQueue, fault, skipA, skipB >>

\* ------------------------------------------- kernel: StoreDataByPackIdx
\* second pass: the slot is decoded from the pack and its update flag is
\* copied into mem_update_d
ScatterRead(w) ==
  /\ Active(w, "scatter_rd")
  /\ LET l == loc[w]
     IN  IF l.tid >= l.size
         THEN /\ pc' = [pc EXCEPT ![w] = l.after]
              /\ loc' = [loc EXCEPT ![w].tid = 0, ![w].after = "off"]
              /\ UNCHANGED << bufs, fault >>
         ELSE LET idx == UnpackIdx(Cur[l.tid + 1].token_pack)
              IN  IF idx >= NumArcs /\ ~cfg.ndebug
                  THEN /\ fault' = "assert_buf_size"
                       /\ UNCHANGED << bufs, pc, loc >>
                  ELSE /\ fault' = fault
                       /\ bufs' = [bufs EXCEPT
                                     ![CurIdx(frame)][l.tid + 1].updated = tpaUpd[idx]]
                       /\ pc' = [pc EXCEPT ![w] = "scatter_wr"]
                       /\ loc' = loc
  /\ UNCHANGED << Others, arcs, lookup, toks, tpa, tpaUpd, cutoff, cutoffPrev,
                  natl, hist, lp, disp, neQueue, modified, skipA, skipB >>

\* the flag is tested (the plain second read of it, or the value of the
\* first read when the build reuses it); if set it is cleared and the slot's
\* token is copied into the TokenState's token
ScatterWrite(w) ==
  /\ Active(w, "scatter_wr")
  /\ LET l == loc[w]
         ts == Cur[l.tid + 1]
         idx == UnpackIdx(ts.token_pack)
     IN  /\ \E flag \in { tpaUpd[idx], ts.updated } :
              IF flag # 0
              THEN /\ tpaUpd' = [tpaUpd EXCEPT ![idx] = 0]
                   /\ toks' = [toks EXCEPT
                                 ![GetTokenByExactIdx(ts.tok_idx_allocated)] = tpa[idx]]
              ELSE UNCHANGED << tpaUpd, toks >>
         /\ loc' = [loc EXCEPT ![w].tid = l.tid + nw]
         /\ pc' = [pc EXCEPT ![w] = "scatter_rd"]
  /\ UNCHANGED << Others, bufs, arcs, lookup, tpa, cutoff, cutoffPrev, natl,
                  hist, lp, disp, neQueue, modified, fault, skipA, skipB >>

\* ------------------------------------ kernel: the non-emitting closure
\* top of the do-while: the size is read, rank 0 clears the dispatchers
NeTop(w) ==
  /\ Active(w, "ne_top")
  /\ loc' = [loc EXCEPT ![w].size = Len(Cur)]
  /\ disp' = IF Rank0(w) THEN [disp EXCEPT !.ne = 0, !.agg = 0] ELSE disp
  /\ pc' = [pc EXCEPT ![w] = "sync_C1"]
  /\ UNCHANGED << Others, bufs, arcs, lookup, toks, tpa, tpaUpd, cutoff,
                  cutoffPrev, natl, hist, lp, neQueue, modified, fault,
                  skipA, skipB >>

\* the flags are swapped, rank 0 clears the one of the next iteration, the
\* iteration is counted; _process_nonemitting_tokens asserts a non-zero size
NeSwap(w) ==
  /\ Active(w, "ne_swap")
  /\ LET l == loc[w]
     IN  /\ modified' = IF Rank0(w) THEN [modified EXCEPT ![l.m0] = FALSE]
                        ELSE modified
         /\ loc' = [loc EXCEPT ![w].m0 = 1 - l.m0, ![w].cnt = l.cnt + 1]
         /\ IF l.size = 0 /\ ~cfg.ndebug
            THEN /\ fault' = "assert_size"
                 /\ pc' = pc
            ELSE /\ fault' = fault
                 /\ pc' = [pc EXCEPT ![w] =
                             IF Aggregate(l.cnt + 1) THEN "agg" ELSE "ne_fetch"]
  /\ UNCHANGED << Others, bufs, arcs, lookup, toks, tpa, tpaUpd, cutoff,
                  cutoffPrev, natl, hist, lp, disp, neQueue, skipA, skipB >>

\* aggregation stage: the updated TokenStates of the thread's share are queued
RECURSIVE QueueAll(_, _, _)
QueueAll(q, at, ts) ==
  IF ts = {} THEN q
  ELSE LET t == CHOOSE x \in ts : \A y \in ts : x <= y
       IN  QueueAll([q EXCEPT ![at] = t], at + 1, ts \ { t })
\* an updated bit that is never seen set
IsUpdatedNever(i) == 0
\* IsUpdated: the updated bit of cur_toks[i], 0 beyond the size
IsUpdated(i) == IF i >= Len(Cur) THEN 0 ELSE Cur[i + 1].updated
Agg(w) ==
  /\ Active(w, "agg")
  /\ LET mine == { t \in Stride(w, loc[w].size) : IsUpdated(t) # 0 }
     IN  /\ neQueue' = QueueAll(neQueue, disp.agg, mine)
         /\ disp' = [disp EXCEPT !.agg = disp.agg + Cardinality(mine)]
  /\ pc' = [pc EXCEPT ![w] = "sync_agg"]
  /\ UNCHANGED << Others, bufs, arcs, lookup, toks, tpa, tpaUpd, cutoff,
                  cutoffPrev, natl, hist, lp, modified, loc, fault, skipA, skipB >>

\* _process_nonemitting_tokens: fetch a survivor (or a queued one)
NeFetch(w) ==
  /\ Active(w, "ne_fetch")
  /\ disp' = [disp EXCEPT !.ne = DispatchNext(disp.ne)]
  /\ LET l == loc[w]
         k == disp.ne
         i == IF Aggregate(l.cnt)
              THEN (IF k >= disp.agg THEN l.size ELSE neQueue[k])
              ELSE k
     IN  IF i >= l.size
         THEN /\ pc' = [pc EXCEPT ![w] = "sync_C2"]
              /\ loc' = [loc EXCEPT ![w].i = -1]
         ELSE /\ loc' = [loc EXCEPT ![w].i = i, ![w].todo = NEArcs(Cur[i + 1].state)]
              /\ pc' = [pc EXCEPT ![w] = "ne_arc"]
  /\ UNCHANGED << Others, bufs, arcs, lookup, toks, tpa, tpaUpd, cutoff,
                  cutoffPrev, natl, hist, lp, neQueue, modified, fault,
                  skipA, skipB >>

\* the next non-emitting arc of the fetched survivor
NeArc(w) ==
  /\ Active(w, "ne_arc")
  /\ IF loc[w].todo = << >>
     THEN /\ pc' = [pc EXCEPT ![w] = "ne_fetch"]
          /\ loc' = loc
     ELSE LET j == Head(loc[w].todo)
              tok == TokOf(Cur[loc[w].i + 1])
              total == tok.cost + Arcs[j].w
          IN  IF WithinCutoff(total, loc[w].cut)
              THEN /\ loc' = [loc EXCEPT ![w].todo = Tail(loc[w].todo),
                                ![w].ns = Arcs[j].to, ![w].j = j,
                                ![w].tot = total, ![w].ac = 0,
                                ![w].emit = FALSE]
                   /\ pc' = [pc EXCEPT ![w] = "foa_cas"]
              ELSE /\ loc' = [loc EXCEPT ![w].todo = Tail(loc[w].todo)]
                   /\ pc' = pc
  /\ UNCHANGED << Others, bufs, arcs, lookup, toks, tpa, tpaUpd, cutoff,
                  cutoffPrev, natl, hist, lp, disp, neQueue, modified, fault,
                  skipA, skipB >>

\* while ((*modified0) == true && cnt < 10)
NeTest(w) ==
  /\ Active(w, "ne_test")
  /\ pc' = [pc EXCEPT ![w] =
              IF ClosureContinues(modified[loc[w].m0], loc[w].cnt)
              THEN "ne_top" ELSE "collect"]
  /\ UNCHANGED << Others, bufs, arcs, lookup, toks, tpa, tpaUpd, cutoff,
                  cutoffPrev, natl, hist, lp, disp, neQueue, modified, loc,
                  fault, skipA, skipB >>

\* ------------------------------------------- kernel: end of the frame
\* the next start index without the start index of this frame
SetNextSidxNoBase(buf, size, f) == [buf EXCEPT ![f + 1] = size]
\* SetNextSidx: sidx_buf[frame + 1] = sidx_buf[frame] + size
SetNextSidx(buf, size, f) == [buf EXCEPT ![f + 1] = buf[f] + size]

\* CollectToksPerFrame (thread 0) and the size read of CollectArcsPerFrame
Collect(w) ==
  /\ Active(w, "collect")
  /\ IF frame + 1 > PruneInterval + 1
     THEN /\ fault' = "sidx_out_of_bounds"
          /\ UNCHANGED << lp, loc, pc >>
     ELSE /\ fault' = fault
          /\ lp' = IF Rank0(w)
                   THEN [lp EXCEPT
                           !.toks_sidx = SetNextSidx(lp.toks_sidx, Len(Cur), frame),
                           !.toks_num_used = lp.toks_num_used + Len(Cur)]
                   ELSE lp
          /\ loc' = [loc EXCEPT ![w].asz = Len(arcs) - lp.arcs_bpr_used]
          /\ pc' = [pc EXCEPT ![w] = "sync_D1"]
  /\ UNCHANGED << Others, bufs, arcs, lookup, toks, tpa, tpaUpd, cutoff,
                  cutoffPrev, natl, hist, disp, neQueue, modified, skipA, skipB >>

\* CollectArcsPerFrame after its barrier, and num_arcs_till_last
CollectArcs(w) ==
  /\ Active(w, "collect_arcs")
  /\ lp' = IF Rank0(w)
           THEN [lp EXCEPT
                   !.arcs_sidx = SetNextSidx(lp.arcs_sidx, loc[w].asz, frame),
                   !.arcs_bpr_used = Len(arcs)]
           ELSE lp
  /\ natl' = IF Rank0(w) THEN Len(arcs) ELSE natl
  /\ pc' = [pc EXCEPT ![w] = "sync_D2"]
  /\ UNCHANGED << Others, bufs, arcs, lookup, toks, tpa, tpaUpd, cutoff,
                  cutoffPrev, hist, disp, neQueue, modified, loc, fault,
                  skipA, skipB >>

\* _initialize_visited_states over the thread's share, and rank 0 prepares
\* the cutoff and the dispatchers of the next frame
Reset(w) ==
  /\ Active(w, "reset")
  /\ LET mine == { Cur[t + 1].state : t \in Stride(w, Len(Cur)) }
     IN  lookup' = [s \in States |-> IF s \in mine THEN LOOKUP_DEACTIVE ELSE lookup[s]]
  /\ cutoff' = IF Rank0(w) THEN Infinity ELSE cutoff
  /\ disp' = IF Rank0(w) THEN [disp EXCEPT !.fb = DispatchReset(disp.fb),
                                                !.pe = DispatchReset(disp.pe)]
           ELSE disp
  /\ loc' = [loc EXCEPT ![w] = Loc0]
  /\ pc' = [pc EXCEPT ![w] = "done"]
  /\ UNCHANGED << Others, bufs, arcs, toks, tpa, tpaUpd, cutoffPrev, natl,
                  hist, lp, neQueue, modified, fault, skipA, skipB >>

\* ------------------------------------------- kernel: _prune_active_tokens
PActive(w, p) == fault = "none" /\ hpc = "prune" /\ pc[w] = p
DecodeVars == << run, handed, isInit, ll, bufs, arcs, lookup, tpa, tpaUpd, cutoff, cutoffPrev,
                 natl, hist, disp, neQueue, modified, skipA, skipB >>

\* GetSize(acc_len, frame) = acc_len[frame + 1] - acc_len[frame]
GetSize(acc_len, f) == acc_len[f + 1] - acc_len[f]
\* GetActiveArc(frame, id) = arcs_bpr_d + arcs_bpr_fr_sidx_d[frame] + id
GetActiveArc(f, id) == arcs[lp.arcs_sidx[f] + id + 1]
\* LatLinkCompact::IsEmitArc()
IsEmitArc(link) == link.prev_fr # link.next_fr
\* a modified1 that is the flag tested in the iteration before
Modified1Tested(cnt) == (cnt + 2) % NumModified
\* UpdateModifiedFlags: the three flags rotate with cnt
Modified0(cnt) == cnt % NumModified
Modified1(cnt) == (cnt + 1) % NumModified
Modified2(cnt) == (cnt + 2) % NumModified
\* the ids tid, tid + batch, ... below size, in the order the loop visits them
StrideSeq(w, size) ==
  SelectSeq([k \in 1..size |-> k - 1], LAMBDA t : t % nw = Tid(w))

\* an extra cost that leaves out the extra cost of the arc's next token
LinkExtraCostLocal(f, link) ==
  LET frame_tok == IF IsEmitArc(link) THEN f - 1 ELSE f
      next_tok == toks[GetActiveToken(f, link.next_tok_id)]
      tok == toks[GetActiveToken(frame_tok, link.prev_tok_id)]
  IN  (tok.cost + link.acoustic + Arcs[link.arc_id].w) - next_tok.cost
\* link_extra_cost = next_tok->extra_cost + ((tok->cost_ + acoustic_cost +
\* arc_weights[arc_id]) - next_tok->cost_); FLT_MAX absorbs what is added
LinkExtraCost(f, link) ==
  LET frame_tok == IF IsEmitArc(link) THEN f - 1 ELSE f
      next_tok == toks[GetActiveToken(f, link.next_tok_id)]
      tok == toks[GetActiveToken(frame_tok, link.prev_tok_id)]
  IN  IF next_tok.extra_cost >= FLT_MAX THEN FLT_MAX
      ELSE next_tok.extra_cost
             + ((tok.cost + link.acoustic + Arcs[link.arc_id].w) - next_tok.cost)
\* a test that lets every arc through
NotPrunedAlways(x) == TRUE
\* !isnan(link_extra_cost) && link_extra_cost <= lattice_beam
NotPruned(x) == x <= cfg.lattice_beam
\* if (link_extra_cost < -1) link_extra_cost = lattice_beam / 2
Rectified(x) == IF x < -1 THEN cfg.lattice_beam \div 2 ELSE x
\* the count of the whole arena in place of the frame's share
FrameSizeNoBase(used, prev_cidx) == used
\* arcs_apr_fr_size_d[frame] = *arcs_apr_used_d - prev_cidx
FrameSize(used, prev_cidx) == used - prev_cidx
\* the output arena is left as the last pruning filled it
ClearedArcsKeep(a) == a
\* *arcs_apr_used_d = 0
ClearedArcs(a) == << >>
\* LatLink apr_arc(prev_tok_id, frame_tok, next_tok_id, frame, ilabel, olabel,
\* weight, acoustic_cost); src (history) is the index of the arc it came from
LatLink(f, id) ==
  LET link == GetActiveArc(f, id)
  IN  [prev_tok_id |-> link.prev_tok_id,
       prev_tok_fr |-> IF IsEmitArc(link) THEN f - 1 ELSE f,
       next_tok_id |-> link.next_tok_id, next_tok_fr |-> f,
       ilabel |-> Arcs[link.arc_id].ilabel, weight |-> Arcs[link.arc_id].w,
       acoustic_cost |-> link.acoustic, src |-> lp.arcs_sidx[f] + id + 1]

\* an arc stored in front of the arcs already in the output arena
AddArcFront(q, a) == << a >> \o q
\* AddArc: i = atomicAdd(arcs_apr_used_d, 1) and the arc is stored at i
AddArc(q, a) == Append(q, a)

\* CopyToksToHost: assert(frame <= prune_interval) and assert(sz), sz being
\* the bytes of the tokens of the frames 0..frame
CopyToksToHostAsserts ==
  (~cfg.ndebug) /\ (frame > PruneInterval \/ lp.toks_sidx[frame + 1] = 0)
\* FinalProcessLattice: the stream is idle, the tokens are copied out and
\* _prune_active_tokens is launched for the frames decoded so far
FinalProcessLattice ==
  /\ hpc \in { "ready", "final" }
  /\ fault = "none"
  /\ run.utt = 1 \/ run.utt < run.uttMax \/ frame = Len(run.llSeq)
  /\ pruneRuns < MaxPruneRuns
  /\ pruneRuns' = pruneRuns + 1
  /\ IF CopyToksToHostAsserts
     THEN /\ fault' = "assert_copy_toks"
          /\ UNCHANGED << hpc, pc, loc >>
     ELSE /\ hpc' = "prune"
          /\ pc' = [w \in Workers |-> "p_start"]
          /\ loc' = [w \in Workers |-> Loc0]
          /\ fault' = fault
  /\ UNCHANGED << Static, frame, DecodeVars, toks, lp, apr, pmod,
                  firstOut >>

\* the pruning kernel has returned on every worker
PruneDone ==
  /\ hpc = "prune"
  /\ fault = "none"
  /\ \A w \in Workers : pc[w] = "p_done"
  /\ hpc' = "final"
  /\ pc' = [w \in Workers |-> "off"]
  /\ loc' = [w \in Workers |-> Loc0]
  /\ firstOut' = IF pruneRuns = 1 THEN << apr, lp.arcs_apr_fr_size >> ELSE firstOut
  /\ UNCHANGED << Static, frame, DecodeVars, toks, lp, apr, pmod, fault,
                  pruneRuns >>

\* the program is run again on the same graph, configuration and acoustic
\* costs: a decoder is constructed anew, its never-written memory holding
\* whatever it holds this time
Construct ==
  /\ hpc = "final"
  /\ fault = "none"
  /\ run.utt < run.uttMax
  /\ run' = [run EXCEPT !.utt = run.utt + 1, !.firstView = View, !.calls = 0]
  /\ handed' = [fb |-> << >>, pe |-> << >>]
  /\ garbage' \in UninitCostsAgain
  /\ cutoffPrev' \in UninitCutoffs
  /\ hpc' = "idle"
  /\ frame' = 0
  /\ isInit' = FALSE
  /\ ll' = << 0, 0 >>
  /\ bufs' = [b \in 0..(LAT_BUF_SIZE - 1) |-> << >>]
  /\ arcs' = << >>
  /\ lookup' = [s \in States |-> LOOKUP_DEACTIVE]
  /\ toks' = [k \in 0..(MaxTokens - 1) |->
                [cost |-> garbage', extra_cost |-> garbage']]
  /\ tpa' = [k \in 0..(MaxArcsPerFrame - 1) |->
               [cost |-> garbage', extra_cost |-> garbage']]
  /\ tpaUpd' = [k \in 0..(MaxArcsPerFrame - 1) |-> 0]
  /\ cutoff' = Infinity
  /\ natl' = 0
  /\ hist' = HistInitialize(0)
  /\ lp' = InitialLp
  /\ disp' = [fb |-> 0, pe |-> 0, ne |-> 0, agg |-> 0]
  /\ neQueue' = [k \in 0..(MaxToksPerFrame - 1) |-> 0]
  /\ modified' = [k \in 0..1 |-> FALSE]
  /\ pc' = [w \in Workers |-> "off"]
  /\ loc' = [w \in Workers |-> Loc0]
  /\ skipA' = {}
  /\ skipB' = {}
  /\ apr' = << >>
  /\ pmod' = [k \in 0..(NumModified - 1) |-> 0]
  /\ pruneRuns' = 0
  /\ firstOut' = << >>
  /\ UNCHANGED << cfg, nw, fault, hs, pv >>

\* PruneActiveTokens: nothing to do before the first frame; rank 0 clears
\* the output count
PruneStart(w) ==
  /\ PActive(w, "p_start")
  /\ IF frame = 0
     THEN /\ pc' = [pc EXCEPT ![w] = "p_done"]
          /\ apr' = apr
     ELSE /\ pc' = [pc EXCEPT ![w] = "p_sync0"]
          /\ apr' = IF Rank0(w) THEN ClearedArcs(apr) ELSE apr
  /\ loc' = [loc EXCEPT ![w].pf = frame]
  /\ UNCHANGED << Static, hpc, frame, DecodeVars, toks, lp, pmod, fault,
                  pruneRuns, firstOut >>

\* an initialisation that overwrites the whole token
InitExtraCostWhole(tok) == [cost |-> FLT_MAX, extra_cost |-> FLT_MAX]
\* tok->extra_cost = FLT_MAX
InitExtraCost(tok) == [tok EXCEPT !.extra_cost = FLT_MAX]
\* PruneLatticeForFrame, initialisation: the thread's share of the tokens of
\* frame - 1 gets extra_cost = FLT_MAX; rank 0 arms the flags and notes the
\* output count
PruneInit(w) ==
  /\ PActive(w, "p_init")
  /\ LET f == loc[w].pf
         mine == { GetActiveToken(f - 1, t) :
                     t \in Stride(w, GetSize(lp.toks_sidx, f - 1)) }
     IN  toks' = [k \in DOMAIN toks |->
                    IF k \in mine THEN InitExtraCost(toks[k])
                    ELSE toks[k]]
  /\ pmod' = IF Rank0(w)
             THEN [pmod EXCEPT ![Modified0(0)] = 1, ![Modified1(0)] = 0,
                               ![Modified2(0)] = 0]
             ELSE pmod
  /\ loc' = [loc EXCEPT ![w].cnt = 0,
                        ![w].prev_cidx = IF Rank0(w) THEN Len(apr)
                                         ELSE loc[w].prev_cidx]
  /\ pc' = [pc EXCEPT ![w] = "p_sync1"]
  /\ UNCHANGED << Static, hpc, frame, DecodeVars, lp, apr, fault,
                  pruneRuns, firstOut >>

\* while (cnt++ < 10 && *modified0 != 0): the flags rotate, rank 0 clears
\* modified1, the thread takes its share of the frame's arcs
PruneTest(w) ==
  /\ PActive(w, "p_test")
  /\ LET c == loc[w].cnt
         size == GetSize(lp.arcs_sidx, loc[w].pf)
         go == c < MaxIter /\ pmod[Modified0(c)] # 0
     IN  /\ pmod' = IF go /\ Rank0(w) THEN [pmod EXCEPT ![Modified1(c + 1)] = 0]
                    ELSE pmod
         /\ loc' = [loc EXCEPT ![w].cnt = c + 1, ![w].todo = StrideSeq(w, size)]
         /\ pc' = [pc EXCEPT ![w] = IF go THEN "p_arc" ELSE "p_aggr"]
  /\ UNCHANGED << Static, hpc, frame, DecodeVars, toks, lp, apr, fault,
                  pruneRuns, firstOut >>

\* one arc of the relaxation loop: the extra cost of the arc's previous
\* token is lowered with atomic_min, and modified0 is raised
PruneArc(w) ==
  /\ PActive(w, "p_arc")
  /\ LET l == loc[w]
     IN  IF l.todo = << >>
         THEN /\ pc' = [pc EXCEPT ![w] = "p_sync2"]
              /\ UNCHANGED << toks, pmod, loc >>
         ELSE LET link == GetActiveArc(l.pf, Head(l.todo))
                  frame_tok == IF IsEmitArc(link) THEN l.pf - 1 ELSE l.pf
                  k == GetActiveToken(frame_tok, link.prev_tok_id)
                  x == LinkExtraCost(l.pf, link)
                  lower == NotPruned(x) /\ Rectified(x) < toks[k].extra_cost
              IN  /\ toks' = IF lower
                             THEN [toks EXCEPT ![k].extra_cost =
                                     Min2(toks[k].extra_cost, Rectified(x))]
                             ELSE toks
                  /\ pmod' = IF lower /\ pmod[Modified0(l.cnt)] = 0
                             THEN [pmod EXCEPT ![Modified0(l.cnt)] = 1]
                             ELSE pmod
                  /\ loc' = [loc EXCEPT ![w].todo = Tail(l.todo)]
                  /\ pc' = pc
  /\ UNCHANGED << Static, hpc, frame, DecodeVars, lp, apr, fault,
                  pruneRuns, firstOut >>

\* one arc of the aggregation loop: AddArc appends the arcs that are not pruned
PruneAggr(w) ==
  /\ PActive(w, "p_aggr")
  /\ LET l == loc[w]
     IN  IF l.todo = << >>
         THEN /\ pc' = [pc EXCEPT ![w] = "p_sync3"]
              /\ UNCHANGED << apr, loc >>
         ELSE LET link == GetActiveArc(l.pf, Head(l.todo))
              IN  /\ apr' = IF NotPruned(LinkExtraCost(l.pf, link))
                            THEN AddArc(apr, LatLink(l.pf, Head(l.todo)))
                            ELSE apr
                  /\ loc' = [loc EXCEPT ![w].todo = Tail(l.todo)]
                  /\ pc' = pc
  /\ UNCHANGED << Static, hpc, frame, DecodeVars, toks, lp, pmod, fault,
                  pruneRuns, firstOut >>

\* a loop that goes on to frame 0
PruneMoreZero(f) == f >= 0
\* for (int32 f = frame; f > 0; f--)
PruneMore(f) == f > 0
\* rank 0 records the frame's share of the output; the loop of
\* PruneActiveTokens moves to the frame before, with no barrier in between
PruneSize(w) ==
  /\ PActive(w, "p_size")
  /\ LET f == loc[w].pf
     IN  /\ lp' = IF Rank0(w)
                  THEN [lp EXCEPT !.arcs_apr_fr_size[f] =
                                    FrameSize(Len(apr), loc[w].prev_cidx)]
                  ELSE lp
         /\ loc' = [loc EXCEPT ![w].pf = f - 1]
         /\ pc' = [pc EXCEPT ![w] = IF PruneMore(f - 1) THEN "p_init"
                                    ELSE "p_done"]
  /\ UNCHANGED << Static, hpc, frame, DecodeVars, toks, apr, pmod, fault,
                  pruneRuns, firstOut >>

\* grid_sync: every worker waits at a barrier; all are released together
BarrierNext(p) ==
  CASE p = "hist_sync1" -> "hist_cut"
    [] p = "hist_sync2" -> "fbc_fetch"
    [] p = "sync_A" -> "flags"
    [] p = "sync_B1" -> "scatter_rd"
    [] p = "sync_B2" -> "ne_top"
    [] p = "sync_C1" -> "ne_swap"
    [] p = "sync_agg" -> "ne_fetch"
    [] p = "sync_C2" -> "scatter_rd"
    [] p = "sync_D1" -> "collect_arcs"
    [] p = "sync_D2" -> "reset"
    [] p = "p_sync0" -> "p_init"
    [] p = "p_sync1" -> "p_test"
    [] p = "p_sync2" -> "p_test"
    [] p = "p_sync3" -> "p_size"
BarrierPcs == { "hist_sync1", "hist_sync2", "sync_A", "sync_B1", "sync_B2",
                "sync_C1", "sync_agg", "sync_C2", "sync_D1", "sync_D2",
                "p_sync0", "p_sync1", "p_sync2", "p_sync3" }
GridSync ==
  /\ fault = "none"
  /\ hpc \in { "kernel", "prune" }
  /\ \A w \in Workers : pc[w] \in BarrierPcs
  /\ pc' = [w \in Workers |-> BarrierNext(pc[w])]
  /\ loc' = [w \in Workers |->
               IF pc[w] = "sync_B1"
               THEN [loc[w] EXCEPT !.tid = Tid(w), !.after = "sync_B2",
                                   !.size = Len(Cur)]
               ELSE IF pc[w] = "sync_C2"
               THEN [loc[w] EXCEPT !.tid = Tid(w), !.after = "ne_test",
                                   !.size = Len(Cur)]
               ELSE loc[w]]
  /\ UNCHANGED << Others, bufs, arcs, lookup, toks, tpa, tpaUpd, cutoff,
                  cutoffPrev, natl, hist, lp, disp, neQueue, modified, fault,
                  skipA, skipB >>

\* -------------------------------------------------------- specification
Next ==
  \/ InitDecoding
  \/ ProcessFrame
  \/ KernelDone
  \/ GridSync
  \/ \E w \in Workers : Start(w)
  \/ \E w \in Workers : HistAdd(w)
  \/ \E w \in Workers : HistCut(w)
  \/ \E w \in Workers : FbcFetch(w)
  \/ \E w \in Workers : FbcMin(w)
  \/ \E w \in Workers : Flags(w)
  \/ \E w \in Workers : PeFetch(w)
  \/ \E w \in Workers : PeArc(w)
  \/ \E w \in Workers : FoaCas(w)
  \/ \E w \in Workers : FoaPush(w)
  \/ \E w \in Workers : FoaPublish(w)
  \/ \E w \in Workers : FoaAlloc(w)
  \/ \E w \in Workers : FoaArc(w)
  \/ \E w \in Workers : AMax(w)
  \/ \E w \in Workers : TmpWrite(w)
  \/ \E w \in Workers : ScatterRead(w)
  \/ \E w \in Workers : ScatterWrite(w)
  \/ \E w \in Workers : NeTop(w)
  \/ \E w \in Workers : NeSwap(w)
  \/ \E w \in Workers : Agg(w)
  \/ \E w \in Workers : NeFetch(w)
  \/ \E w \in Workers : NeArc(w)
  \/ \E w \in Workers : NeTest(w)
  \/ \E w \in Workers : Collect(w)
  \/ \E w \in Workers : CollectArcs(w)
  \/ \E w \in Workers : Reset(w)

Spec == Init /\ [][Next]_vars

\* decoding followed by the back-pruning of the utterance
NextPrune ==
  \/ Next
  \/ FinalProcessLattice
  \/ PruneDone
  \/ \E w \in Workers : PruneStart(w)
  \/ \E w \in Workers : PruneInit(w)
  \/ \E w \in Workers : PruneTest(w)
  \/ \E w \in Workers : PruneArc(w)
  \/ \E w \in Workers : PruneAggr(w)
  \/ \E w \in Workers : PruneSize(w)
SpecPrune == Init /\ [][NextPrune]_vars

\* the steps of one worker of the decoding kernel
WorkerStep(w) ==
  \/ Start(w) \/ HistAdd(w) \/ HistCut(w) \/ FbcFetch(w) \/ FbcMin(w)
  \/ Flags(w) \/ PeFetch(w) \/ PeArc(w) \/ FoaCas(w) \/ FoaPush(w)
  \/ FoaPublish(w) \/ FoaAlloc(w) \/ FoaArc(w) \/ AMax(w) \/ TmpWrite(w)
  \/ ScatterRead(w) \/ ScatterWrite(w) \/ NeTop(w) \/ NeSwap(w) \/ Agg(w)
  \/ NeFetch(w) \/ NeArc(w) \/ NeTest(w) \/ Collect(w) \/ CollectArcs(w)
  \/ Reset(w)
\* the kernel is launched with a static grid whose blocks all meet at
\* grid_sync, which needs every block to be resident: every worker that can
\* step eventually steps and a barrier that every worker has reached
\* eventually opens
Fairness ==
  /\ WF_vars(GridSync)
  /\ \A w \in 1..NumWorkers : WF_vars(WorkerStep(w))
SpecFair == Init /\ [][Next]_vars /\ Fairness

\* the decoder of the graph with a chain of non-emitting arcs
ChainConfigs == { Config(6, 2, 1, 1) }
InitChain == InitState(ChainConfigs, NumWorkers, 1)
SpecChain == InitChain /\ [][Next]_vars

\* decoders whose capacities the utterance exhausts, or whose graph is empty
InitCap == InitState(CapConfigs, NumWorkers, 1)
SpecCap == InitCap /\ [][Next]_vars

\* one worker group, the utterance decoded twice
\* an utterance of more frames than prune_interval, decoded by one worker
LongConfigs == { [Config(1, 2, 1, 1) EXCEPT !.frames = PruneInterval + 1] }
InitLong == InitState(LongConfigs, 1, 1)
SpecLong == InitLong /\ [][Next]_vars

InitSingle == InitState(Configs, 1, 2)
NextSingle == NextPrune \/ Construct
SpecSingle == InitSingle /\ [][NextSingle]_vars

\* two utterances decoded and pruned by the same decoder, one after the
\* other, with one worker group
InitAgain == InitState(Configs, 1, 2)
NextAgain == NextPrune \/ InitDecodingAgain
SpecAgain == InitAgain /\ [][NextAgain]_vars

\* three utterances on one decoder with one worker group: an utterance, any
\* other utterance, and the first utterance again
InitReuse == InitState({ Config(7, 6, 1, 6) }, 1, 3)
SpecReuse == InitReuse /\ [][NextAgain]_vars

\* ------------------------------------------------- CudaVector::PushBack
\* the device path of PushBack in its three steps, called concurrently on
\* one vector of capacity PushCap
MainVars == << cfg, garbage, nw, run, handed, hpc, frame, isInit, ll, bufs,
               arcs, lookup, toks, tpa, tpaUpd, cutoff, cutoffPrev, natl, hist,
               lp, disp, neQueue, modified, pc, loc, fault, skipA, skipB, apr,
               pmod, pruneRuns, firstOut >>
\* an add that leaves the count as it was
AtomicAddLost(count) == count
\* atomicAdd(count_d, 1): the new count
AtomicAdd(count) == count + 1
\* if (*count_d >= max_size) *count_d = max_size - 1
Saturated(count) == IF count >= PushCap THEN PushCap - 1 ELSE count

\* uint32 idx = atomicAdd(count_d, 1)
PushAdd(w) ==
  /\ pv.pc[w] = "idle"
  /\ pv.n[w] < MaxPushes
  /\ pv' = [pv EXCEPT !.idx[w] = pv.count, !.count = AtomicAdd(pv.count),
                      !.n[w] = pv.n[w] + 1, !.pc[w] = "added"]
  /\ UNCHANGED << MainVars, hs >>

\* the saturation of the count
PushSaturate(w) ==
  /\ pv.pc[w] = "added"
  /\ pv' = [pv EXCEPT !.count = Saturated(pv.count), !.pc[w] = "store"]
  /\ UNCHANGED << MainVars, hs >>

\* mem_d[idx] = val; return idx.  A store behind the end of mem_d is not
\* kept by the model.
PushStore(w) ==
  /\ pv.pc[w] = "store"
  /\ LET val == << w, pv.n[w] >>
     IN  pv' = [pv EXCEPT
                  !.mem = IF pv.idx[w] < PushCap
                          THEN [pv.mem EXCEPT ![pv.idx[w]] = val] ELSE pv.mem,
                  !.ret = pv.ret \cup { [idx |-> pv.idx[w], val |-> val] },
                  !.pc[w] = "idle"]
  /\ UNCHANGED << MainVars, hs >>

InitPush == InitState({ Config(1, 2, 1, 1) }, NumWorkers, 1)
NextPush ==
  \/ \E w \in Workers : PushAdd(w)
  \/ \E w \in Workers : PushSaturate(w)
  \/ \E w \in Workers : PushStore(w)
SpecPush == InitPush /\ [][NextPush]_vars

\* ------------------------------------------- the host and its CUDA streams
\* the host calls of one utterance and the operations they issue to
\* stream_comp, stream_ll, stream_lat[0] and stream_lat[1].  A stream
\* executes its operations in the order of issue; operations of different
\* streams are ordered only by events and by the host's waits.
Op(o, a, b) == [op |-> o, a |-> a, b |-> b]
\* operations whose execution takes time: the copies and the two kernels
\* that read the log-likelihoods or write the token arena
LongOps == { "copy_ll", "kernel", "prune", "copy_toks", "copy_last",
             "copy_arcs" }
Issue(s, ops) == [hs.q EXCEPT ![s] = hs.q[s] \o ops]
StreamIdle(s) == hs.q[s] = << >>
\* both buffers stay what they are
SwapNone(b) == b
\* std::swap(loglikelihoods_d, loglikelihoods_old_d)
Swap(b) == 1 - b

\* InitDecoding: the token vectors are cleared, the lookup table is
\* initialised, the start token added and the closure kernel of frame 0
\* launched, all on stream_comp
HostInitDecoding ==
  /\ hs.hp \in { "idle", "final" }
  /\ hs.hp = "final" => hs.utt < StreamUtts
  /\ hs' = [hs EXCEPT
              !.hp = "ready", !.f = 0,
              !.utt = IF hs.hp = "final" THEN hs.utt + 1 ELSE hs.utt,
              !.got = << -1, -1 >>,
              !.q = Issue("comp", << Op("clear", 0, 0), Op("clear", 1, 0),
                                     Op("init_states", 0, 0),
                                     Op("add_initial", 0, 0),
                                     Op("kernel_init", 0, 0) >>)]
  /\ UNCHANGED << MainVars, pv >>

\* ComputeLogLikelihoods: the buffers are swapped, the scores of frame
\* num_frames_decoded_ are computed on the host and their copy to
\* loglikelihoods_d is issued to stream_ll, followed by the record of
\* event_ll
HostComputeLogLikelihoods ==
  /\ hs.hp = "ready"
  /\ hs.f < StreamFrames
  /\ LET b == Swap(hs.lld)
     IN  hs' = [hs EXCEPT
                  !.hp = "pre", !.lld = b,
                  !.rec.ll = hs.rec.ll + 1,
                  !.q = Issue("ll", << Op("copy_ll", b, hs.f),
                                       Op("record_ll", hs.rec.ll + 1, 0) >>)]
  /\ UNCHANGED << MainVars, pv >>

\* PreProcessTokens: num_frames_decoded_++, cur_toks cleared on stream_comp
HostPreProcessTokens ==
  /\ hs.hp = "pre"
  /\ hs' = [hs EXCEPT
              !.hp = "pt", !.f = hs.f + 1,
              !.q = Issue("comp", << Op("clear", (hs.f + 1) % 2, 0) >>)]
  /\ UNCHANGED << MainVars, pv >>

\* ProcessTokens, up to the launch: cudaStreamWaitEvent(stream_comp,
\* event_ll) waits for the latest record of event_ll, then the kernel that
\* expands with the scores of frame f - 1, read from loglikelihoods_d
HostProcessTokens ==
  /\ hs.hp = "pt"
  /\ hs' = [hs EXCEPT
              !.hp = "pt_sync",
              !.q = Issue("comp", << Op("wait_ll", hs.rec.ll, 0),
                                     Op("kernel", hs.lld, hs.f - 1) >>)]
  /\ UNCHANGED << MainVars, pv >>

\* ProcessTokens, the rest: cudaEventSynchronize(event_pt) returns when the
\* latest record of event_pt has completed (at once if there is none), then
\* event_pt is recorded behind the kernel just launched
HostEventSynchronize ==
  /\ hs.hp = "pt_sync"
  /\ hs.done.pt >= hs.rec.pt
  /\ hs' = [hs EXCEPT
              !.hp = "ready",
              !.rec.pt = hs.rec.pt + 1,
              !.q = Issue("comp", << Op("record_pt", hs.rec.pt + 1, 0) >>)]
  /\ UNCHANGED << MainVars, pv >>

\* FinalProcessLattice, first part: cudaStreamSynchronize(stream_comp), the
\* copy of the token arena issued to stream_lat[0] (CopyToksToHost), the
\* pruning kernel launched on stream_comp (PruneActiveTokens) and the copy
\* of cur_toks issued to stream_lat[1]
HostFinalProcessLattice ==
  /\ hs.hp = "ready"
  /\ StreamIdle("comp")
  /\ hs' = [hs EXCEPT
              !.hp = "fin_prune",
              !.q = [hs.q EXCEPT
                       !["lat0"] = hs.q["lat0"] \o << Op("copy_toks", 0, 0) >>,
                       !["comp"] = hs.q["comp"] \o << Op("prune", 0, 0) >>,
                       !["lat1"] = hs.q["lat1"] \o << Op("copy_last", 0, 0) >>]]
  /\ UNCHANGED << MainVars, pv >>

\* FinalProcessLattice, second part: cudaStreamSynchronize(stream_comp),
\* then CopyArcsToHost issues the copies of the arcs and of their per-frame
\* sizes to stream_lat[1]
HostCopyArcsToHost ==
  /\ hs.hp = "fin_prune"
  /\ StreamIdle("comp")
  /\ hs' = [hs EXCEPT
              !.hp = "fin_sync",
              !.q = Issue("lat1", << Op("copy_arcs", 0, 0),
                                     Op("copy_arcs", 1, 0) >>)]
  /\ UNCHANGED << MainVars, pv >>

\* FinalProcessLattice, the end: both copy streams are waited for and
\* GetHostData hands out the host buffers
HostGetHostData ==
  /\ hs.hp = "fin_sync"
  /\ StreamIdle("lat0") /\ StreamIdle("lat1")
  /\ hs' = [hs EXCEPT !.hp = "final"]
  /\ UNCHANGED << MainVars, pv >>

\* a stream starts the operation at its head.  The copy of the
\* log-likelihoods starts to write its device buffer; _prune_active_tokens
\* starts to write extra-costs in the token arena (cu:1121-1128); the copy
\* of the arena reads its first part.
StreamBegin(s) ==
  /\ ~StreamIdle(s) /\ ~hs.busy[s]
  /\ Head(hs.q[s]).op \in LongOps
  /\ LET o == Head(hs.q[s])
     IN  hs' = [hs EXCEPT
                  !.busy[s] = TRUE,
                  !.dbuf = IF o.op = "copy_ll"
                           THEN [hs.dbuf EXCEPT ![o.a].writing = TRUE]
                           ELSE hs.dbuf,
                  !.ver = IF o.op = "prune" THEN hs.ver + 1 ELSE hs.ver,
                  !.got = IF o.op = "copy_toks" THEN << hs.ver, -1 >>
                          ELSE hs.got]
  /\ UNCHANGED << MainVars, pv >>

\* the operation at the head of a stream completes.  The device buffer then
\* holds the scores of the copied frame; the pruning kernel has written the
\* last extra-costs (cu:1152-1174); the copy of the arena has read its last
\* part.
StreamEnd(s) ==
  /\ ~StreamIdle(s) /\ hs.busy[s]
  /\ LET o == Head(hs.q[s])
     IN  hs' = [hs EXCEPT
                  !.busy[s] = FALSE,
                  !.q[s] = Tail(hs.q[s]),
                  !.dbuf = IF o.op = "copy_ll"
                           THEN [hs.dbuf EXCEPT
                                   ![o.a] = [frame |-> o.b, writing |-> FALSE]]
                           ELSE hs.dbuf,
                  !.ver = IF o.op = "prune" THEN hs.ver + 1 ELSE hs.ver,
                  !.got = IF o.op = "copy_toks" THEN << hs.got[1], hs.ver >>
                          ELSE hs.got]
  /\ UNCHANGED << MainVars, pv >>

\* the other operations: a wait for an event passes once the record it
\* waits for has completed, a record completes, and the memsets and the
\* kernels of InitDecoding run, which touch neither the log-likelihoods nor
\* the extra-costs
StreamStep(s) ==
  /\ ~StreamIdle(s)
  /\ Head(hs.q[s]).op \notin LongOps
  /\ LET o == Head(hs.q[s])
     IN  /\ o.op = "wait_ll" => hs.done.ll >= o.a
         /\ hs' = [hs EXCEPT
                     !.q[s] = Tail(hs.q[s]),
                     !.done = IF o.op = "record_ll"
                              THEN [hs.done EXCEPT !.ll = o.a]
                              ELSE IF o.op = "record_pt"
                              THEN [hs.done EXCEPT !.pt = o.a]
                              ELSE hs.done]
  /\ UNCHANGED << MainVars, pv >>

InitStreams == InitState({ Config(1, 2, 1, 1) }, NumWorkers, 1)
NextStreams ==
  \/ HostInitDecoding
  \/ HostComputeLogLikelihoods
  \/ HostPreProcessTokens
  \/ HostProcessTokens
  \/ HostEventSynchronize
  \/ HostFinalProcessLattice
  \/ HostCopyArcsToHost
  \/ HostGetHostData
  \/ \E s \in Streams : StreamBegin(s)
  \/ \E s \in Streams : StreamEnd(s)
  \/ \E s \in Streams : StreamStep(s)
SpecStreams == InitStreams /\ [][NextStreams]_vars

\* ============================================================ properties
\* positions of the kernel used below
AllAt(p) == hpc = "kernel" /\ fault = "none" /\ \A w \in Workers : pc[w] = p
ScatterPhase ==
  hpc = "kernel" /\ \E w \in Workers : pc[w] \in { "scatter_rd", "scatter_wr" }
FrameDone == hpc = "ready" /\ fault = "none"
TokIdx(buf) == 0..(Len(buf) - 1)
\* the arcs pushed while processing frame f
ArcsOfFrame(f) == { k \in 1..Len(arcs) : arcs[k].next_fr = f }
IsEmitting(j) == Arcs[j].ilabel # 0
\* total cost of emitting graph arc j taken from prev_toks[i]
EmitTotal(i, j) == TokOf(Prev[i + 1]).cost + Arcs[j].w + ll[Arcs[j].ilabel]
\* the emitting out-arcs of the prev_toks entries in a given index set
EmitPairs(is) ==
  { ij \in is \X (1..NumArcs) :
      Arcs[ij[2]].from = Prev[ij[1] + 1].state /\ IsEmitting(ij[2]) }
MinOf(S) == CHOOSE x \in S : \A y \in S : x <= y

\* C1: in any interleaving of the workers, a token buffer never holds two
\* TokenStates for the same graph state
C1_OneTokenStatePerState ==
  \A b \in 0..(LAT_BUF_SIZE - 1) : \A i, j \in 1..Len(bufs[b]) :
    i # j => bufs[b][i].state # bufs[b][j].state
\* two workers met on the same lookup slot while its TokenState was being pushed
C1_Witness ==
  \E w1, w2 \in Workers :
    /\ w1 # w2
    /\ pc[w1] = "foa_publish" /\ pc[w2] = "foa_arc"
    /\ loc[w1].ns = loc[w2].ns
    /\ lookup[loc[w1].ns] = LOOKUP_READY_PUSH

\* C2: once Phase B and its scatter are over, every state that received an
\* emitting arc within the cutoff from an expanded source has a token whose
\* cost is the least total cost over those arcs
C2_Contending(s) ==
  { ij \in EmitPairs(TokIdx(Prev) \ skipB) :
      Arcs[ij[2]].to = s /\ EmitTotal(ij[1], ij[2]) <= cutoff }
C2_RecombinationKeepsMin ==
  AllAt("sync_B2") =>
    \A s \in States :
      C2_Contending(s) # {} =>
        \E k \in 1..Len(Cur) :
          /\ Cur[k].state = s
          /\ TokOf(Cur[k]).cost =
               MinOf({ EmitTotal(ij[1], ij[2]) : ij \in C2_Contending(s) })
\* a state reached by two arcs of different total cost, after the scatter
C2_Witness ==
  /\ AllAt("sync_B2")
  /\ \E s \in States : \E a, b \in C2_Contending(s) :
       EmitTotal(a[1], a[2]) < EmitTotal(b[1], b[2])

\* C3: whenever the scatter runs, the initial frame included, no two
\* TokenStates of cur_toks decode to the same temp slot with its update flag set
C3_NoSharedSlot ==
  ScatterPhase =>
    \A i, j \in 1..Len(Cur) :
      (i # j /\ UnpackIdx(Cur[i].token_pack) = UnpackIdx(Cur[j].token_pack))
        => tpaUpd[UnpackIdx(Cur[i].token_pack)] = 0

\* the least cost of a path of non-emitting arcs from the start state
RECURSIVE EpsRelax(_, _)
EpsRelax(d, n) ==
  IF n = 0 THEN d
  ELSE EpsRelax([s \in States |->
                   MinOf({ d[s] } \cup
                         { d[Arcs[j].from] + Arcs[j].w :
                             j \in { a \in 1..NumArcs :
                                       Arcs[a].to = s /\ ~IsEmitting(a)
                                       /\ d[Arcs[a].from] < Infinity } })],
                n - 1)
EpsDist == EpsRelax([s \in States |-> IF s = StartState THEN 0 ELSE Infinity],
                    NumStates)
\* C4: when frame 0 is finished the start token costs 0 and every state
\* reachable by non-emitting arcs within the cutoff has a token with the
\* least cost of such a path
C4_InitialClosure ==
  (FrameDone /\ frame = 0) =>
    \A s \in States :
      EpsDist[s] <= InitCutoff =>
        \E k \in 1..Len(Cur) :
          Cur[k].state = s /\ TokOf(Cur[k]).cost = EpsDist[s]

\* C5: in Phase B an emitting arc of an expanded source is taken exactly when
\* its total cost is at most m + beam, m the least total cost that Phase A saw
C5_BestTotal ==
  LET ts == { EmitTotal(ij[1], ij[2]) : ij \in EmitPairs(TokIdx(Prev) \ skipA) }
  IN  IF ts = {} THEN Infinity ELSE MinOf(ts)
C5_Expanded ==
  { << arcs[k].prev_tok_id, arcs[k].arc_id >> : k \in ArcsOfFrame(frame) }
C5_BeamPruningIff ==
  AllAt("sync_B1") =>
    \A ij \in EmitPairs(TokIdx(Prev) \ skipB) :
      (ij \in C5_Expanded) <=>
        (C5_BestTotal = Infinity
           \/ EmitTotal(ij[1], ij[2]) <= C5_BestTotal + cfg.beam)
\* Phase B is over: one arc was taken at the very cutoff and one was pruned
C5_Witness ==
  /\ AllAt("sync_B1")
  /\ \E a, b \in EmitPairs(TokIdx(Prev) \ skipB) :
       /\ EmitTotal(a[1], a[2]) = C5_BestTotal + cfg.beam
       /\ a \in C5_Expanded
       /\ EmitTotal(b[1], b[2]) > C5_BestTotal + cfg.beam
       /\ b \notin C5_Expanded

\* C6: when prev_toks holds more than max_active entries in a frame after the
\* first, equal costs included, at most max_active sources are expanded
C6_HistogramBoundsSources ==
  (AllAt("sync_B1") /\ frame > 1 /\ Len(Prev) > cfg.max_active) =>
    Cardinality(TokIdx(Prev) \ skipB) <= cfg.max_active

\* C7: a source is skipped only in a frame after the first whose prev_toks
\* exceeds max_active, and then exactly when its cost is above cutoff_prev;
\* Phase A and Phase B skip the same sources; frame 1 skips none
C7_SkipSet ==
  IF frame > 1 /\ Len(Prev) > cfg.max_active
  THEN { i \in TokIdx(Prev) : TokOf(Prev[i + 1]).cost > cutoffPrev }
  ELSE {}
C7_SkipOnlyByHistogram ==
  /\ (AllAt("sync_A") \/ AllAt("sync_B1")) => skipA = C7_SkipSet
  /\ AllAt("sync_B1") => skipB = C7_SkipSet

\* the TokenStates that frame f ended with, from the start indices
Survivors(f) == lp.toks_sidx[f + 1] - lp.toks_sidx[f]
\* C8: after each frame the start-index arrays begin at 0, never decrease,
\* and consecutive entries differ by the frame's TokenState count and by the
\* number of arcs pushed in the frame
C8_StartIndices ==
  FrameDone =>
    /\ lp.toks_sidx[0] = 0 /\ lp.arcs_sidx[0] = 0
    /\ Survivors(frame) = Len(Cur)
    /\ frame >= 1 => Survivors(frame - 1) = Len(Prev)
    /\ \A f \in 0..frame :
         /\ lp.toks_sidx[f] <= lp.toks_sidx[f + 1]
         /\ lp.arcs_sidx[f] <= lp.arcs_sidx[f + 1]
         /\ lp.arcs_sidx[f + 1] - lp.arcs_sidx[f] = Cardinality(ArcsOfFrame(f))
\* two frames after the initial one are done, each with tokens and arcs
C8_Witness ==
  /\ FrameDone /\ frame = 2
  /\ Len(Cur) > 0 /\ Len(Prev) > 0
  /\ ArcsOfFrame(1) # {} /\ ArcsOfFrame(2) # {}
  /\ lp.toks_sidx[2] > lp.toks_sidx[1]

\* the TokenStates of a buffer whose token index has been assigned
Allocated(buf) == { i \in TokIdx(buf) : buf[i + 1].tok_idx_allocated # -1 }
\* C9: the i-th TokenState of frame t owns arena index toks_sidx[t] + i, which
\* is the record GetActiveToken(t, i) returns; the indices grow with i and no
\* two TokenStates of any frame share a record
C9_TokenIndex ==
  /\ \A i \in Allocated(Cur) :
       /\ Cur[i + 1].tok_idx_allocated = lp.toks_sidx[frame] + i
       /\ GetTokenByExactIdx(Cur[i + 1].tok_idx_allocated) = GetActiveToken(frame, i)
  /\ frame >= 1 =>
       \A i \in Allocated(Prev) :
         /\ Prev[i + 1].tok_idx_allocated = lp.toks_sidx[frame - 1] + i
         /\ GetTokenByExactIdx(Prev[i + 1].tok_idx_allocated)
              = GetActiveToken(frame - 1, i)
  /\ \A i, j \in Allocated(Cur) :
       i < j => Cur[i + 1].tok_idx_allocated < Cur[j + 1].tok_idx_allocated
  /\ frame >= 1 =>
       \A i \in Allocated(Prev), j \in Allocated(Cur) :
         Prev[i + 1].tok_idx_allocated < Cur[j + 1].tok_idx_allocated
\* a frame after the initial one whose TokenStates all have their index
C9_Witness ==
  /\ FrameDone /\ frame >= 1
  /\ Len(Cur) >= 2 /\ Len(Prev) >= 2
  /\ Allocated(Cur) = TokIdx(Cur)
  /\ Cur[1].tok_idx_allocated > 0

Pruned == hpc = "final" /\ fault = "none"
\* the token an output arc names as its previous / next endpoint
OutPrev(a) == toks[GetActiveToken(a.prev_tok_fr, a.prev_tok_id)]
OutNext(a) == toks[GetActiveToken(a.next_tok_fr, a.next_tok_id)]
\* an extra cost of FLT_MAX stands for +infinity: nothing is within a beam of it
WithinBeamOf(extra, delta) == extra < FLT_MAX /\ extra + delta <= cfg.lattice_beam
\* the arcs of the arena before pruning that were pushed in frame f
BprArcs(f) == (lp.arcs_sidx[f] + 1)..lp.arcs_sidx[f + 1]
\* how many output arcs came from the arc at index k of the arena before pruning
Copies(k) == Cardinality({ n \in 1..Len(apr) : apr[n].src = k })
RECURSIVE SumSizes(_)
SumSizes(f) == IF f < 0 THEN 0 ELSE lp.arcs_apr_fr_size[f] + SumSizes(f - 1)

\* C11: after back-pruning, every arc of the output arena has
\* next.extra_cost + (prev.cost + acoustic + graph weight - next.cost) at most
\* lattice_beam, evaluated with the final extra costs
C11_OutputWithinLatticeBeam ==
  Pruned =>
    \A n \in 1..Len(apr) :
      WithinBeamOf(OutNext(apr[n]).extra_cost,
                   (OutPrev(apr[n]).cost + apr[n].acoustic_cost + apr[n].weight)
                     - OutNext(apr[n]).cost)
\* a pruning that kept some arcs and dropped at least one
C11_Witness ==
  /\ Pruned
  /\ Len(apr) >= 2
  /\ \E f \in 1..frame : \E k \in BprArcs(f) : Copies(k) = 0

\* C12: once the iteration of each frame has converged, an arc of a frame
\* t >= 1 is in the output, once, exactly when its extra cost under the
\* converged extra costs is at most lattice_beam
C12_KeptIffWithinLatticeBeam ==
  Pruned =>
    \A f \in 1..frame : \A k \in BprArcs(f) :
      LET prev == toks[GetActiveToken(arcs[k].prev_fr, arcs[k].prev_tok_id)]
          next == toks[GetActiveToken(arcs[k].next_fr, arcs[k].next_tok_id)]
          within == WithinBeamOf(next.extra_cost,
                                 (prev.cost + arcs[k].acoustic + Arcs[arcs[k].arc_id].w)
                                   - next.cost)
      IN  /\ Copies(k) = (IF within THEN 1 ELSE 0)
          /\ \A n \in 1..Len(apr) : apr[n].src = k => apr[n].next_tok_fr = f
\* two arcs entering the same token of a frame, one kept and one pruned
C12_Witness ==
  /\ Pruned
  /\ \E f \in 1..frame : \E k1, k2 \in BprArcs(f) :
       /\ arcs[k1].next_tok_id = arcs[k2].next_tok_id
       /\ Copies(k1) = 1
       /\ Copies(k2) = 0

\* C13: after the pruning of an utterance of T frames, the sizes recorded
\* for the frames 0..T add up to the number of arcs in the output arena
C13_SizesSumToUsed ==
  Pruned => SumSizes(frame) = Len(apr)
\* both frames of a two-frame utterance contributed arcs
C13_Witness ==
  /\ Pruned
  /\ frame = 2
  /\ lp.arcs_apr_fr_size[1] > 0
  /\ lp.arcs_apr_fr_size[2] > 0
  /\ \E w1, w2 \in Workers : w1 # w2

\* C14: after back-pruning, every token of the frames 0..T, the last frame
\* included, that is not the previous endpoint of a surviving arc has
\* extra_cost = FLT_MAX
C14_DeadTokensInfinite ==
  Pruned =>
    \A f \in 0..frame : \A t \in 0..(GetSize(lp.toks_sidx, f) - 1) :
      (\A n \in 1..Len(apr) :
         ~(apr[n].prev_tok_fr = f /\ apr[n].prev_tok_id = t))
        => toks[GetActiveToken(f, t)].extra_cost = FLT_MAX
\* an utterance of one frame or more ends with the tokens of its last frame
\* untouched by the pruning
C14_Witness ==
  /\ Pruned
  /\ frame >= 1
  /\ \E t \in 0..(GetSize(lp.toks_sidx, frame) - 1) :
       /\ toks[GetActiveToken(frame, t)].extra_cost # FLT_MAX
       /\ \A n \in 1..Len(apr) :
            ~(apr[n].prev_tok_fr = frame /\ apr[n].prev_tok_id = t)

\* the elements of a sequence
Range(q) == { q[n] : n \in 1..Len(q) }
\* C15: a second run of PruneActiveTokens with no frame decoded in between
\* leaves the same set of output arcs and the same arc_frame_size values as
\* the first
C15_PruneIdempotent ==
  (Pruned /\ pruneRuns >= 2) =>
    /\ Range(apr) = Range(firstOut[1])
    /\ Len(apr) = Len(firstOut[1])
    /\ lp.arcs_apr_fr_size = firstOut[2]
\* a second pruning of a two-frame utterance that dropped an arc
C15_Witness ==
  /\ Pruned
  /\ pruneRuns = 2
  /\ frame = 2
  /\ Len(apr) >= 2
  /\ \E f \in 1..frame : \E k \in BprArcs(f) : Copies(k) = 0

\* ------------------------------------------------------- empty utterance
\* no token of the last frame has an emitting arc: cur_toks stays empty
NoEmittingArcSurvives ==
  frame >= 1 /\ \A i \in 1..Len(Prev) : EArcs(Prev[i].state) = << >>
\* C20: an utterance in which no emitting arc survives is decoded without an
\* assertion or fault, and its pruned output has no arc
C20_EmptyUtteranceDecodes ==
  NoEmittingArcSurvives =>
    /\ fault = "none"
    /\ Pruned => apr = << >>
\* the closure of a frame is entered with an empty cur_toks
C20_Witness ==
  /\ NoEmittingArcSurvives
  /\ hpc = "kernel"
  /\ Len(Cur) = 0
  /\ \E w \in Workers : pc[w] = "ne_swap"

\* -------------------------------------------------------- reproducibility
\* C16: with a single worker, a second execution on the same graph,
\* configuration and acoustic costs returns the tokens, start indices, arcs
\* and arc_frame_size of the first
C16_SingleWorkerReproducible ==
  (nw = 1 /\ run.utt = 2) =>
    /\ fault = "none"
    /\ Pruned => View = run.firstView
\* a second execution of a two-frame utterance has been pruned
C16_Witness ==
  /\ nw = 1
  /\ run.utt = 2
  /\ Pruned
  /\ frame = 2
  /\ Len(apr) >= 2

\* -------------------------------------------------------------- capacity
\* C17: when a frame pushes more arcs than max_lat_arc_per_frame, the push
\* that exceeds the ceiling stops the utterance with a fault, and no slot at
\* or above the ceiling is used to write token_per_arc or its update flags
C17_ArcCeilingEnforced ==
  \A w \in Workers :
    (hpc = "kernel" /\ pc[w] \in { "amax", "tmp_write" })
      => loc[w].u < cfg.max_lat_arc_per_frame
\* a frame has pushed more arcs than the ceiling
C17_Witness ==
  /\ hpc = "kernel"
  /\ Len(arcs) - natl > cfg.max_lat_arc_per_frame
  /\ cfg.max_lat_arc_per_frame = SmallArcsPerFrame

\* C18: when the tokens used so far and those of the current frame exceed
\* max_tokens the decoder stops with a fatal error: no frame completes beyond
\* the arena, and no two TokenStates of a frame are bound to the same Token
C18_ArenaExhaustionFatal ==
  /\ FrameDone => lp.toks_num_used <= cfg.max_tokens
  /\ \A i, j \in 1..Len(Cur) :
       (i # j /\ Cur[i].tok_idx_allocated >= 0 /\ Cur[j].tok_idx_allocated >= 0)
         => GetTokenByExactIdx(Cur[i].tok_idx_allocated)
              # GetTokenByExactIdx(Cur[j].tok_idx_allocated)
\* a frame asks for more tokens than the arena has left
C18_Witness ==
  /\ hpc = "kernel"
  /\ lp.toks_num_used + Len(Cur) > cfg.max_tokens
  /\ cfg.max_tokens = SmallTokens

\* ---------------------------------------------------------------- pushes
RECURSIVE SumTo(_, _)
SumTo(f, n) == IF n = 0 THEN 0 ELSE f[n] + SumTo(f, n - 1)
\* the calls of PushBack started so far
PushesStarted == SumTo(pv.n, nw)
PushQuiet == \A w \in Workers : pv.pc[w] = "idle"
\* C19: while the vector stays below its capacity, concurrent calls of
\* PushBack return distinct indices, each value is in the slot whose index
\* was returned, and once k calls have returned and none is in flight the
\* indices are exactly 0..k-1 and Size() = k
C19_PushLinearizable ==
  PushesStarted < PushCap =>
    /\ \A r1, r2 \in pv.ret : r1.idx = r2.idx => r1 = r2
    /\ \A r \in pv.ret : r.idx < PushCap /\ pv.mem[r.idx] = r.val
    /\ PushQuiet =>
         /\ { r.idx : r \in pv.ret } = 0..(PushesStarted - 1)
         /\ Cardinality(pv.ret) = PushesStarted
         /\ pv.count = PushesStarted
\* two calls in flight at once, after another has returned
C19_Witness ==
  /\ PushesStarted = PushCap - 1
  /\ \E w1, w2 \in Workers :
       /\ w1 # w2
       /\ pv.pc[w1] = "added"
       /\ pv.pc[w2] = "store"
  /\ Cardinality(pv.ret) >= 1

\* C34: under any interleaving of concurrent calls of PushBack, those at a
\* full vector included, no call stores at an index >= max_size and the
\* count, which Size() returns, never exceeds max_size
C34_PushInBounds ==
  /\ pv.count <= PushCap
  /\ \A w \in Workers : pv.pc[w] = "store" => pv.idx[w] < PushCap
\* two calls in flight at a vector with one free slot: the second atomicAdd
\* has read a count that no saturation has brought back yet
C34_Witness ==
  \E w1, w2 \in Workers :
    /\ w1 # w2
    /\ pv.pc[w1] \in { "added", "store" } /\ pv.idx[w1] = PushCap - 1
    /\ pv.pc[w2] = "store" /\ pv.idx[w2] = PushCap
    /\ pv.count = PushCap - 1

\* ------------------------------------------------------------ empty graph
\* the graph has no start state, or no arc
GraphEmpty == FstStart = kNoStateId \/ NumArcs = 0
NoTokenCreated ==
  /\ \A b \in 0..(LAT_BUF_SIZE - 1) : bufs[b] = << >>
  /\ \A k \in DOMAIN toks : toks[k] = GarbageToken
\* C21: on a graph without start state, and on a graph without arcs,
\* InitDecoding stops with a fatal error before a TokenState or a token is
\* created, and no kernel is launched
C21_GraphEmptyFatal ==
  GraphEmpty =>
    /\ hpc = "idle"
    /\ NoTokenCreated
    /\ fault \in { "none", "assert_start_state" }
\* a frame has been decoded on the graph without arcs
C21_Witness ==
  /\ NumArcs = 0
  /\ FrameDone
  /\ frame = 1
  /\ Len(Prev) = 1

\* ---------------------------------------------------------- reset
\* InitDecoding has returned and no worker has taken a step yet
Begun == hpc = "kernel" /\ isInit /\ \A w \in Workers : pc[w] = "start"
\* C22: right after InitDecoding, whatever was decoded before, the frame
\* counter is 0, cur_toks holds the start TokenState alone, the other buffer
\* and the arc buffer are empty, the token count, the start indices and the
\* counters of the arcs after pruning are 0; when the kernel of frame 0 has
\* returned every lookup slot is LOOKUP_DEACTIVE; and the frame counter always
\* equals the number of process_frame calls of the utterance
C22_BeginUtteranceResets ==
  /\ Begun =>
       /\ frame = 0
       /\ Len(Cur) = 1 /\ Cur[1].state = StartState
       /\ lookup[StartState] = 0
       /\ \A b \in 0..(LAT_BUF_SIZE - 1) : b # CurIdx(0) => bufs[b] = << >>
       /\ arcs = << >>
       /\ apr = << >>
       /\ lp.toks_num_used = 0 /\ lp.arcs_bpr_used = 0
       /\ \A f \in 0..(PruneInterval + 1) :
            /\ lp.toks_sidx[f] = 0
            /\ lp.arcs_sidx[f] = 0
            /\ lp.arcs_apr_fr_size[f] = 0
  /\ (FrameDone /\ frame = 0) => \A s \in States : lookup[s] = LOOKUP_DEACTIVE
  /\ frame = run.calls
\* the second utterance begins on a decoder that has decoded two frames and
\* pruned their lattice
C22_Witness ==
  /\ Begun
  /\ run.utt = 2
  /\ Len(run.llSeq) = 2
  /\ pruneRuns >= 1
  /\ Len(firstOut[1]) >= 2

\* ------------------------------------------------------------ lookup slots
\* the workers that won the compare-and-swap on the slot of state s and have
\* not yet published the index
Claiming(s) ==
  { w \in Workers : pc[w] \in { "foa_push", "foa_publish" } /\ loc[w].ns = s }
\* what one step may do to the slot of state s
SlotStep(s) ==
  \/ lookup'[s] = lookup[s]
  \/ /\ lookup[s] = LOOKUP_DEACTIVE /\ lookup'[s] = LOOKUP_READY_PUSH
     /\ hpc = "kernel"
     /\ Claiming(s) = {}
     /\ \E w \in Workers :
          /\ pc[w] = "foa_cas" /\ pc'[w] = "foa_push" /\ loc[w].ns = s
          /\ \A v \in Workers \ { w } : pc'[v] = pc[v]
  \/ /\ lookup[s] = LOOKUP_READY_PUSH /\ lookup'[s] >= 0
     /\ \E w \in Workers :
          /\ pc[w] = "foa_publish" /\ pc'[w] # "foa_publish" /\ loc[w].ns = s
          /\ lookup'[s] = loc[w].tsidx
     /\ lookup'[s] < Len(Cur)
     /\ Cur[lookup'[s] + 1].state = s
  \/ /\ lookup[s] >= 0 /\ lookup'[s] = LOOKUP_DEACTIVE
     /\ hpc = "kernel"
     /\ \E w \in Workers : pc[w] = "reset" /\ pc'[w] = "done"
  \/ /\ hpc # "kernel" /\ hpc' = "kernel" /\ isInit'
     /\ lookup[s] = LOOKUP_DEACTIVE
     /\ lookup'[s] = (IF s = StartState THEN 0 ELSE LOOKUP_DEACTIVE)
\* a TokenState is pushed in the kernel only by the winner of its slot
PushStep ==
  (hpc = "kernel" /\ hpc' = "kernel"
     /\ Len(bufs'[CurIdx(frame)]) > Len(bufs[CurIdx(frame)])) =>
    \E w \in Workers :
      /\ pc[w] = "foa_push" /\ pc'[w] = "foa_publish"
      /\ lookup[loc[w].ns] = LOOKUP_READY_PUSH
      /\ Claiming(loc[w].ns) = { w }
      /\ bufs'[CurIdx(frame)][Len(bufs'[CurIdx(frame)])].state = loc[w].ns
\* the index is read from a slot only when the slot holds one
ReadStep ==
  /\ \A w \in Workers :
       (pc[w] = "foa_arc" /\ pc'[w] # "foa_arc") =>
         /\ lookup[loc[w].ns] >= 0
         /\ loc'[w].tsidx = lookup[loc[w].ns]
  /\ Len(arcs') > Len(arcs) =>
       \E w \in Workers :
         /\ pc[w] = "foa_arc"
         /\ \A v \in Workers \ { w } : pc'[v] = pc[v]
         /\ lookup[loc[w].ns] >= 0
         /\ arcs'[Len(arcs')].next_tok_id = lookup[loc[w].ns]
\* C23: a lookup slot only moves LOOKUP_DEACTIVE -> LOOKUP_READY_PUSH (one
\* worker wins the compare-and-swap) -> index (after the winner's push) ->
\* LOOKUP_DEACTIVE (the reset at the end of the frame); only the winner pushes
\* the TokenState; no worker takes an index from a slot that is
\* LOOKUP_DEACTIVE or LOOKUP_READY_PUSH
C23_LookupSlotCycle ==
  [][(\A s \in States : SlotStep(s)) /\ PushStep /\ ReadStep]_vars
\* in a frame after the initial one a worker spins on a slot whose winner has
\* not pushed yet
C23_Witness ==
  /\ hpc = "kernel" /\ frame >= 1
  /\ \E w1, w2 \in Workers :
       /\ w1 # w2
       /\ pc[w1] = "foa_push" /\ pc[w2] = "foa_arc"
       /\ loc[w1].ns = loc[w2].ns
       /\ lookup[loc[w1].ns] = LOOKUP_READY_PUSH

\* ------------------------------------------------ leaving the spin loop
InFindOrAdd(w) ==
  pc[w] \in { "foa_cas", "foa_push", "foa_publish", "foa_alloc", "foa_arc" }
\* the arcs of one frame that lead to the same graph state carry the same
\* TokenState index, and so does every worker that has left the loop
SameIndexPerState ==
  /\ \A k1, k2 \in 1..Len(arcs) :
       (/\ arcs[k1].next_fr = arcs[k2].next_fr
        /\ Arcs[arcs[k1].arc_id].to = Arcs[arcs[k2].arc_id].to)
         => arcs[k1].next_tok_id = arcs[k2].next_tok_id
  /\ hpc = "kernel" =>
       \A w \in Workers :
         pc[w] \in { "amax", "tmp_write" } =>
           \E k \in ArcsOfFrame(frame) :
             /\ Arcs[arcs[k].arc_id].to = loc[w].ns
             /\ arcs[k].next_tok_id = loc[w].tsidx
\* C24: with the workers scheduled fairly, a worker that enters
\* _find_or_add_token_arc eventually returns from it (it leaves the spin
\* loop), and all workers that look up one state in one frame get the same
\* TokenState index
C24_SpinLoopLeft ==
  /\ []SameIndexPerState
  /\ \A w \in 1..NumWorkers :
       (hpc = "kernel" /\ InFindOrAdd(w)) ~> ~InFindOrAdd(w)
\* two workers have left the loop with the same index for the same state
C24_Witness ==
  /\ hpc = "kernel" /\ fault = "none" /\ frame >= 1
  /\ \E w1, w2 \in Workers :
       /\ w1 # w2
       /\ pc[w1] = "amax" /\ pc[w2] = "tmp_write"
       /\ loc[w1].ns = loc[w2].ns
       /\ loc[w1].tsidx = loc[w2].tsidx

\* ------------------------------------------------- the reset of the slots
\* no worker of the frame's kernel has reached the expansion yet
BeforeExpansion ==
  /\ hpc = "kernel" /\ ~isInit
  /\ \A w \in Workers :
       pc[w] \in { "start", "hist_add", "hist_sync1", "hist_cut", "hist_sync2",
                  "fbc_fetch", "fbc_min", "sync_A", "flags" }
\* C25: when the expansion of a frame starts, the previous _process_tokens
\* having finished, every lookup slot is LOOKUP_DEACTIVE: the reset over
\* cur_toks restores every slot claimed during the frame
C25_SlotsInactiveAtFrameStart ==
  (fault = "none" /\ (hpc = "ready" \/ BeforeExpansion)) =>
    \A s \in States : lookup[s] = LOOKUP_DEACTIVE
\* a frame after the initial one has finished with more TokenStates than
\* workers, so that a worker has reset more than one slot
C25_Witness ==
  /\ FrameDone /\ frame >= 1
  /\ Len(Cur) > nw
  /\ \A s \in States : lookup[s] = LOOKUP_DEACTIVE

\* ------------------------------------------- the non-emitting closure
\* the worker has left the do-while of the closure
ClosureLeft(w) ==
  pc[w] \in { "collect", "sync_D1", "collect_arcs", "sync_D2", "reset" }
\* the worker is at the top of an iteration that follows another one
ClosureRepeats(w) == pc[w] \in { "ne_top", "sync_C1" } /\ loc[w].cnt >= 1
\* the scatter of the last iteration marked a TokenState as updated
SomeUpdated == \E i \in TokIdx(Cur) : IsUpdated(i) # 0
ClosureBounds ==
  hpc = "kernel" =>
    /\ \A w \in Workers : loc[w].cnt \in 0..MaxIter
    /\ \A w \in Workers :
         ClosureLeft(w) =>
           /\ fault = "none"
           /\ loc[w].cnt >= 1
           /\ loc[w].cnt < MaxIter => ~modified[loc[w].m0]
    /\ \A w \in Workers :
         ClosureRepeats(w) => modified[loc[w].m0] /\ loc[w].cnt < MaxIter
    /\ (\A w \in Workers : ClosureLeft(w) /\ loc[w].cnt < MaxIter)
         => ~SomeUpdated
    /\ (\A w \in Workers : ClosureRepeats(w)) => SomeUpdated
\* C26: the non-emitting closure of a frame terminates after at least one
\* and at most MaxIter = 10 iterations; it goes on exactly while the last
\* iteration improved a token pack; leaving it at the cap with the modified
\* flag still set is no error
C26_ClosureTerminates ==
  /\ []ClosureBounds
  /\ \A w \in 1..NumWorkers :
       (hpc = "kernel" /\ pc[w] = "ne_top")
         ~> (ClosureLeft(w) \/ fault # "none")
\* the closure of the initial frame has been left at the cap of ten
\* iterations, the modified flag still set, and the frame goes on
C26_Witness ==
  /\ AllAt("sync_D2")
  /\ \A w \in Workers : loc[w].cnt = MaxIter /\ modified[loc[w].m0]

\* ------------------------------------------------------ the aggregation
\* every worker has left the closure of a frame after the initial one,
\* before the cap
ClosedEarly ==
  /\ hpc = "kernel" /\ fault = "none" /\ ~isInit
  /\ \A w \in Workers : ClosureLeft(w) /\ loc[w].cnt < MaxIter
\* the non-emitting arcs out of cur_toks[i] that the cutoff lets through
OpenArcs(i) ==
  { j \in 1..NumArcs :
      /\ Arcs[j].from = Cur[i + 1].state /\ ~IsEmitting(j)
      /\ TokOf(Cur[i + 1]).cost + Arcs[j].w <= cutoff }
\* C27: when the closure of a frame after the initial one stops before the
\* cap, cur_toks is closed under the non-emitting arcs: for every survivor s
\* and every non-emitting arc s -> s' of weight w with cost(s) + w <= cutoff,
\* s' has a token of cost <= cost(s) + w, although the iterations after the
\* first expand only the TokenStates whose updated bit is set
C27_AggregationLosesNoWork ==
  ClosedEarly =>
    \A i \in TokIdx(Cur) :
      \A j \in OpenArcs(i) :
        \E k \in TokIdx(Cur) :
          /\ Cur[k + 1].state = Arcs[j].to
          /\ TokOf(Cur[k + 1]).cost <= TokOf(Cur[i + 1]).cost + Arcs[j].w
\* the closure stopped after three iterations: the second expanded, from
\* the queue of updated TokenStates, one that the first had created, and
\* relaxed an arc into a TokenState that the emitting arcs had created
C27_Witness ==
  /\ ClosedEarly
  /\ \A w \in Workers : loc[w].cnt = 3
  /\ \E i, k \in TokIdx(Cur) :
       /\ k < i
       /\ \E j \in OpenArcs(i) : Cur[k + 1].state = Arcs[j].to
       /\ \E a \in ArcsOfFrame(frame) :
            /\ ~IsEmitting(arcs[a].arc_id) /\ arcs[a].next_tok_id = i

\* ------------------------------------------------------- the dispatchers
\* q hands out every index 0..n-1 exactly once
HandsOutOnce(q, n) ==
  /\ Len(q) = n
  /\ \A i \in 0..(n - 1) : Cardinality({ k \in 1..Len(q) : q[k] = i }) = 1
\* no index twice, and none beyond prev_toks
NoneTwice(q) ==
  /\ \A k1, k2 \in 1..Len(q) : q[k1] = q[k2] => k1 = k2
  /\ \A k \in 1..Len(q) : q[k] \in TokIdx(Prev)
AllIn(ps) == hpc = "kernel" /\ fault = "none" /\ \A w \in Workers : pc[w] \in ps
\* C28: in Phase A and in Phase B of a frame every index of prev_toks is
\* handed out exactly once, whatever the interleaving, and fb_idx, pe_idx,
\* ne_idx and agg_idx are 0 before the phase that uses them next starts
C28_DispatchExactlyOnce ==
  /\ (hpc = "kernel" /\ ~isInit) => NoneTwice(handed.fb) /\ NoneTwice(handed.pe)
  /\ (AllIn({ "fbc_min", "sync_A" }) /\ ~isInit)
       => HandsOutOnce(handed.fb, Len(Prev))
  /\ (AllIn({ "sync_B1" }) /\ ~isInit) => HandsOutOnce(handed.pe, Len(Prev))
  /\ FrameDone => disp.fb = 0 /\ disp.pe = 0
  /\ AllIn({ "start", "hist_add", "hist_sync1", "hist_cut", "hist_sync2" })
       => disp.fb = 0
  /\ AllIn({ "start", "hist_add", "hist_sync1", "hist_cut", "hist_sync2",
             "fbc_fetch", "fbc_min", "sync_A", "flags" }) => disp.pe = 0
  /\ AllIn({ "sync_C1", "ne_swap" }) => disp.ne = 0 /\ disp.agg = 0
\* Phase B of a frame has handed out three indices to two workers, after
\* Phase A had done the same, and the closure is about to start
C28_Witness ==
  /\ AllIn({ "sync_B1" }) /\ ~isInit
  /\ Len(Prev) > nw
  /\ Len(handed.fb) = Len(Prev) /\ Len(handed.pe) = Len(Prev)
  /\ disp.fb = Len(Prev) + nw /\ disp.pe = Len(Prev) + nw

\* ------------------------------------------- first pass of recombination
\* the worker holds an arc slot: it is between the push of its arc and the
\* end of its write into token_per_arc
HoldsSlot(w) == pc[w] \in { "amax", "tmp_write" }
\* the arc of this frame whose push returned slot u
SlotArc(u) == arcs[natl + u + 1]
\* slot u has been returned by the push of an arc into cur_toks[k]
SlotOf(u, k) ==
  /\ natl + u + 1 \in 1..Len(arcs)
  /\ SlotArc(u).next_fr = frame /\ SlotArc(u).next_tok_id = k
  /\ Arcs[SlotArc(u).arc_id].to = Cur[k + 1].state
\* no two workers hold the same slot, and a held slot is that of the
\* holder's own arc
OneProducerPerSlot ==
  /\ \A w1, w2 \in Workers :
       (w1 # w2 /\ HoldsSlot(w1) /\ HoldsSlot(w2)) => loc[w1].u # loc[w2].u
  /\ \A w \in Workers :
       HoldsSlot(w) =>
         /\ SlotOf(loc[w].u, loc[w].tsidx)
         /\ SlotArc(loc[w].u).arc_id = loc[w].j
\* what the scatter reads: a flagged slot named by the pack of a TokenState
\* is the slot of an arc into that TokenState, and holds the token whose
\* cost is in the pack
ScatterReadsWinner(k) ==
  LET u == UnpackIdx(Cur[k + 1].token_pack)
  IN  tpaUpd[u] # 0 =>
        /\ SlotOf(u, k)
        /\ tpa[u] = NewToken(UnpackCost(Cur[k + 1].token_pack))
FirstPassConflictFree ==
  (hpc = "kernel" /\ fault = "none") =>
    /\ OneProducerPerSlot
    /\ ScatterPhase => \A k \in TokIdx(Cur) : ScatterReadsWinner(k)
\* C29: within a frame every arc slot is returned to exactly one arc
\* producer, so token_per_arc[u] and token_per_arc_update[u] have one
\* writer in the frame, and the holder of the final maximum pack of a state
\* has written its slot before the scatter reads it
C29_FirstPassConflictFree == FirstPassConflictFree
\* the initial frame at its first scatter: slot 0, written by
\* _add_initial_token for the start state, has been written again by the
\* producer of the first arc, and the start TokenState still names it
C29_Witness ==
  /\ hpc = "kernel" /\ fault = "none" /\ isInit /\ ScatterPhase
  /\ Len(Cur) >= 2 /\ Len(arcs) >= 1
  /\ UnpackIdx(Cur[1].token_pack) = 0 /\ tpaUpd[0] # 0
  /\ arcs[1].next_tok_id = 1
  /\ tpa[0] # NewToken(UnpackCost(Cur[1].token_pack))

\* ------------------------------------------- the order of the output arcs
\* the number of output arcs of the frames after f
RECURSIVE BlockStart(_)
BlockStart(f) ==
  IF f >= frame THEN 0 ELSE lp.arcs_apr_fr_size[f + 1] + BlockStart(f + 1)
\* the places of the output arena that belong to frame f
Block(f) == (BlockStart(f) + 1)..(BlockStart(f) + lp.arcs_apr_fr_size[f])
\* C30: the output arcs are in pruning order: the surviving arcs of each
\* frame form one contiguous block of length arcs_apr_fr_size[f], and the
\* blocks follow each other in descending frame order, frame T first and
\* frame 1 last
C30_ArcsInPruningOrder ==
  Pruned =>
    /\ \A f \in 1..frame : \A n \in Block(f) :
         n <= Len(apr) /\ apr[n].next_tok_fr = f
    /\ \A n \in 1..Len(apr) : \E f \in 1..frame : n \in Block(f)
    /\ \A n, m \in 1..Len(apr) :
         n < m => apr[n].next_tok_fr >= apr[m].next_tok_fr
\* a pruned utterance of two frames whose output holds two arcs of frame 2
\* in front of an arc of frame 1
C30_Witness ==
  /\ Pruned /\ frame = 2
  /\ lp.arcs_apr_fr_size[2] >= 2 /\ lp.arcs_apr_fr_size[1] >= 1
  /\ apr[1].next_tok_fr = 2 /\ apr[2].next_tok_fr = 2
  /\ apr[Len(apr)].next_tok_fr = 1

\* ------------------------------------------- what back-pruning changes
\* the arena indices that worker w initialises when it leaves p_init
InitShare(w) ==
  { GetActiveToken(loc[w].pf - 1, t) :
      t \in Stride(w, GetSize(lp.toks_sidx, loc[w].pf - 1)) }
\* a step of the pruning kernel
PruneKeeps ==
  hpc = "prune" =>
    /\ \A k \in DOMAIN toks : toks'[k].cost = toks[k].cost
    /\ lp'.toks_sidx = lp.toks_sidx /\ lp'.arcs_sidx = lp.arcs_sidx
    /\ lp'.toks_num_used = lp.toks_num_used
    /\ arcs' = arcs /\ bufs' = bufs
    /\ \A k \in DOMAIN toks :
         toks'[k].extra_cost > toks[k].extra_cost =>
           /\ toks'[k].extra_cost = FLT_MAX
           /\ \E w \in Workers :
                pc[w] = "p_init" /\ pc'[w] = "p_sync1" /\ k \in InitShare(w)
\* C31: back-pruning changes only the extra costs of the tokens and the
\* output arc arena: token costs, the per-frame start indices of tokens and
\* arcs and the arcs before pruning stay as they are, and an extra cost is
\* raised only by the initialisation of its frame to FLT_MAX
C31_PruneChangesOnlyExtraCosts == [][PruneKeeps]_vars
\* a finished pruning that lowered the extra cost of a token below FLT_MAX
\* and dropped an arc from the output
C31_Witness ==
  /\ Pruned /\ frame = 2
  /\ Len(apr) >= 1 /\ Len(apr) < Len(arcs) - lp.arcs_sidx[1]
  /\ \E k \in 0..(lp.toks_sidx[frame] - 1) :
       toks[k].extra_cost > 0 /\ toks[k].extra_cost < FLT_MAX

\* ------------------------------------------------------ buffer rotation
\* q begins with p
IsPrefix(p, q) == Len(p) <= Len(q) /\ SubSeq(q, 1, Len(p)) = p
\* the step stays within the utterance
SameUtterance == run'.utt = run.utt /\ hpc # "idle"
RotationStep ==
  /\ (SameUtterance /\ frame' = frame + 1) =>
       /\ bufs'[PrevIdx(frame')] = bufs[CurIdx(frame)]
       /\ bufs'[CurIdx(frame')] = << >>
  /\ (SameUtterance /\ frame' = frame) =>
       bufs'[PrevIdx(frame)] = bufs[PrevIdx(frame)]
  /\ SameUtterance => IsPrefix(arcs, arcs')
\* C32: for every frame counter, frame 0 with its wrapped frame - 1
\* included, cur_toks and prev_toks are different buffers, cur being
\* lat_toks_bufs_[frame % 2]; process_frame clears only cur, so that prev_toks
\* holds the survivors of the frame before throughout the frame; the arc
\* buffer only grows within an utterance
C32_BufferRotation ==
  /\ [](CurIdx(frame) # PrevIdx(frame) /\ CurIdx(frame) = frame % 2
        /\ PrevIdx(frame) \in 0..(LAT_BUF_SIZE - 1))
  /\ [][RotationStep]_vars
\* the second frame is being expanded: the buffer index has wrapped around,
\* prev_toks holds the survivors of frame 1 and the arcs of both earlier
\* frames are still there
C32_Witness ==
  /\ hpc = "kernel" /\ fault = "none" /\ frame = 2
  /\ CurIdx(frame) = 0 /\ PrevIdx(frame) = 1
  /\ Len(Prev) >= 2 /\ Len(Cur) >= 1
  /\ ArcsOfFrame(0) # {} /\ ArcsOfFrame(1) # {} /\ ArcsOfFrame(2) # {}

\* ------------------------------------------------ streams of the host
Executing(s, o) == ~StreamIdle(s) /\ hs.busy[s] /\ Head(hs.q[s]).op = o
\* C33: with ComputeLogLikelihoods, PreProcessTokens and ProcessTokens
\* called once per frame, the expansion kernel of a frame never runs before
\* the copy of that frame's log-likelihoods to the device has completed,
\* and the copy for the next frame never writes the device buffer that a
\* running expansion kernel reads: while the kernel of frame t runs, its
\* buffer holds the scores of frame t and is not being written
C33_LogLikelihoodsDoubleBuffered ==
  Executing("comp", "kernel") =>
    LET o == Head(hs.q["comp"])
    IN  hs.dbuf[o.a] = [frame |-> o.b, writing |-> FALSE]
\* the kernel of frame 1 runs while the copy of frame 2 is being written
\* into the other buffer
C33_Witness ==
  /\ Executing("comp", "kernel") /\ Head(hs.q["comp"]).b = 1
  /\ Executing("ll", "copy_ll") /\ Head(hs.q["ll"]).b = 2
  /\ hs.dbuf[1 - Head(hs.q["comp"]).a].writing

\* C35: in FinalProcessLattice the copy of the token arena to the host is
\* never in flight while the pruning kernel writes extra-costs, so the
\* exported tokens carry the extra-costs of one point in time; and the copy
\* of the pruned arcs starts only after the pruning kernel has completed
ArcsCopyIssued == \E k \in 1..Len(hs.q["lat1"]) : hs.q["lat1"][k].op = "copy_arcs"
PruneIssued == \E k \in 1..Len(hs.q["comp"]) : hs.q["comp"][k].op = "prune"
C35_CopiesApartFromPruning ==
  /\ ~(Executing("lat0", "copy_toks") /\ Executing("comp", "prune"))
  /\ hs.got[2] # -1 => hs.got[1] = hs.got[2]
  /\ ArcsCopyIssued => ~PruneIssued
\* the copy of the arena has read its first part, the pruning kernel has
\* started to write, the copy is still in flight
C35_Witness ==
  /\ hs.hp = "fin_prune"
  /\ Executing("lat0", "copy_toks") /\ Executing("comp", "prune")
  /\ hs.got[1] < hs.ver

\* ------------------------------------------------ the two fixpoint loops
\* the worker has still to read the flag of the closure's continuation test
AwaitsClosureTest(w) ==
  /\ hpc = "kernel"
  /\ \/ pc[w] = "ne_test"
     \/ pc[w] \in { "scatter_rd", "scatter_wr" } /\ loc[w].after = "ne_test"
\* the worker has still to read the flag of the pruning loop's test
AwaitsPruneTest(w) == hpc = "prune" /\ pc[w] = "p_test"
\* no step writes a flag that a worker has still to read for its test
FlagsStable ==
  /\ \A k \in 0..1 :
       modified'[k] # modified[k] =>
         \A w \in Workers : ~(AwaitsClosureTest(w) /\ loc[w].m0 = k)
  /\ \A k \in 0..(NumModified - 1) :
       pmod'[k] # pmod[k] =>
         \A w \in Workers : ~(AwaitsPruneTest(w) /\ Modified0(loc[w].cnt) = k)
\* a worker at a barrier has every other worker either on its way to that
\* barrier or at it, in the same iteration
BarriersAligned ==
  (fault = "none" /\ hpc \in { "kernel", "prune" }) =>
    \A w1, w2 \in Workers :
      pc[w1] \in BarrierPcs =>
        /\ pc[w2] \notin { "done", "p_done" }
        /\ pc[w2] \in BarrierPcs =>
             pc[w2] = pc[w1] /\ loc[w2].cnt = loc[w1].cnt
\* C36: in the closure loop and in the pruning loop every worker evaluates
\* a continuation test on the same flag value (no flag is written while a
\* worker has still to read it for the current test), so all workers run
\* the same number of iterations and no worker waits at a grid barrier
\* that another worker never reaches
C36_LoopTestsAgree == []BarriersAligned /\ [][FlagsStable]_vars
\* the pruning loop at its second test: one worker has still to read the
\* raised flag while rank 0, past the test and in the next iteration, has
\* cleared another flag
C36_Witness ==
  /\ hpc = "prune" /\ fault = "none"
  /\ \E w1, w2 \in Workers :
       /\ pc[w1] = "p_test" /\ loc[w1].cnt >= 1
       /\ Rank0(w2) /\ pc[w2] = "p_arc" /\ loc[w2].cnt = loc[w1].cnt + 1
       /\ pmod[Modified0(loc[w1].cnt)] # 0
       /\ pmod[Modified1(loc[w2].cnt)] = 0

\* --------------------------------------------------- the arcs of frame 0
\* the worker is in PruneLatticeForFrame
InPruneFrame(w) ==
  hpc = "prune" /\
  pc[w] \in { "p_init", "p_sync1", "p_test", "p_arc", "p_sync2", "p_aggr",
              "p_sync3", "p_size" }
\* C37: the arcs recorded during frame 0 are never examined by the
\* back-pruning and never appear among the exported arcs, and
\* arc_frame_size[0] is 0 in every utterance, also when such an arc has a
\* link_extra_cost within lattice_beam
C37_InitialArcsNeverExported ==
  /\ \A w \in Workers : InPruneFrame(w) => loc[w].pf >= 1
  /\ hpc # "idle" =>
       /\ lp.arcs_apr_fr_size[0] = 0
       /\ \A k \in 1..Len(apr) :
            apr[k].next_tok_fr >= 1 /\ arcs[apr[k].src].next_fr >= 1
\* after the pruning of an utterance with frames, frame 0 holds an arc that
\* the test of the pruning would keep, and arcs of later frames were kept
C37_Witness ==
  /\ hpc = "final" /\ fault = "none" /\ frame >= 1
  /\ Len(apr) >= 1
  /\ \E k \in ArcsOfFrame(0) :
       LET id == k - 1 - lp.arcs_sidx[0]
       IN  /\ id \in 0..(GetSize(lp.arcs_sidx, 0) - 1)
           /\ NotPruned(LinkExtraCost(0, GetActiveArc(0, id)))

\* ------------------------------------------- the per-frame index arrays
\* C38: for any number of process_frame calls in an utterance, every write
\* to entry frame + 1 of the start-index arrays of tokens and arcs and to
\* arc_frame_size stays inside the prune_interval + 2 entries allocated
C38_IndexArraysInBounds ==
  /\ fault # "sidx_out_of_bounds"
  /\ \A w \in Workers :
       (hpc = "kernel" /\ pc[w] \in { "collect", "collect_arcs" }) =>
         frame + 1 \in DOMAIN lp.toks_sidx /\ frame + 1 \in DOMAIN lp.arcs_sidx
\* the kernel of frame prune_interval + 1 is about to set the start index
\* of the next frame, after every earlier frame has set its own
C38_Witness ==
  /\ hpc = "kernel" /\ fault = "none"
  /\ frame = PruneInterval + 1
  /\ \E w \in Workers : pc[w] = "collect"
  /\ lp.toks_sidx[PruneInterval + 1] > lp.toks_sidx[PruneInterval]

\* ------------------------------------------------- a decoder used again
\* what the caller gets of a view: the arcs without the model's note of
\* where each came from
Returned(v) ==
  << v[1], v[2],
     [k \in 1..Len(v[3]) |-> [f \in DOMAIN v[3][k] \ { "src" } |-> v[3][k][f]]],
     v[4] >>
\* C39: an utterance decoded on a decoder that has decoded another
\* utterance before gives the tokens and arcs it gives on a fresh decoder:
\* no value that the earlier utterance left behind influences the result.
\* The first utterance ran on the fresh decoder; the third is the first
\* one again, on the same decoder, after any second utterance.
C39_ReuseLikeFresh ==
  (nw = 1 /\ run.utt = 3 /\ run.firstView # << >>) =>
    /\ fault = "none"
    /\ Pruned => Returned(View) = Returned(run.firstView)
\* the utterance, of two frames, has been decoded and pruned again after
\* another utterance, and its result is not the one of the fresh decoder
C39_Witness ==
  /\ nw = 1 /\ run.utt = 3 /\ run.firstView # << >>
  /\ Pruned
  /\ frame = 2
  /\ Returned(View) # Returned(run.firstView)

\* ------------------------------------------------ the cost along an arc
\* every worker has left the closure of the frame before the iteration cap
ClosureConverged ==
  /\ hpc = "kernel" /\ fault = "none"
  /\ \A w \in Workers : ClosureLeft(w) /\ loc[w].cnt < MaxIter
\* the arc the pruning kernel is about to look at
ArcInHand(w) ==
  /\ hpc = "prune" /\ fault = "none"
  /\ pc[w] \in { "p_arc", "p_aggr" } /\ loc[w].todo # << >>
\* C40: for every arc recorded in a frame whose closure converged, the cost
\* of the destination token at the close of the frame is at most the cost
\* of the source token plus the acoustic cost and the graph weight of the
\* arc; hence the link_extra_cost of the back-pruning is never negative and
\* its replacement by lattice_beam / 2 is never taken
C40_ArcCostsConsistent ==
  /\ ClosureConverged =>
       \A k \in ArcsOfFrame(frame) : LinkExtraCostLocal(frame, arcs[k]) >= 0
  /\ \A w \in Workers :
       ArcInHand(w) =>
         LET x == LinkExtraCost(loc[w].pf,
                                GetActiveArc(loc[w].pf, Head(loc[w].todo)))
         IN  x >= 0 /\ Rectified(x) = x
\* the closure of a frame has converged after more than one iteration and
\* the destination token of one of the frame's arcs costs more than its
\* source token plus the weight of the arc
C40_Witness ==
  /\ ClosureConverged
  /\ \A w \in Workers : loc[w].cnt >= 2
  /\ \E k \in ArcsOfFrame(frame) : LinkExtraCostLocal(frame, arcs[k]) < 0
====
